---- MODULE Spec2Model ----
(***************************************************************************)
(* State-machine model of the docx2md conversion core:                     *)
(*   - StyleResolver          (src/src/converter/styles.rs)                *)
(*   - NumberingResolver      (src/src/converter/numbering.rs)             *)
(*   - build_grid/render_grid (src/src/converter/table_grid.rs, table.rs)  *)
(*   - ConversionContext      (src/src/converter/context.rs) and the tail  *)
(*     of DocxToMarkdown::convert_inner (src/src/converter/mod.rs)         *)
(* Each component has its own specification (SpecStyles, SpecNumbering,    *)
(* SpecGrid, SpecRegistry); the variables of the other components stay at  *)
(* their initial value.                                                    *)
(***************************************************************************)
EXTENDS Integers, Sequences, FiniteSets, TLC

VARIABLES
    \* ---- StyleResolver ----
    style_map,        \* style id -> style record (base, character, paragraph)
    doc_defaults,     \* styles.default: [character, paragraph], each NoneV or props
    spc,              \* position inside resolve_run_property / resolve_paragraph_property
    sargs,            \* arguments of the call in progress
    chain,            \* apply_style_chain_*: the collected chain (style ids)
    current_id,       \* apply_style_chain_*: the loop variable
    merged,           \* the accumulator `merged` / `target`
    sresult,          \* value returned by the last finished resolve call
    \* ---- ConversionContext (reference registry) and convert_inner ----
    footnotes,              \* Vec<String>: footnote bodies in registration order
    footnote_index_by_id,   \* HashMap<isize, usize>
    footnote_text_by_id,    \* HashMap<isize, String>, built by ConversionContext::new
    endnotes,
    endnote_index_by_id,
    endnote_text_by_id,
    comments,               \* Vec<(String, String)>
    seen_comment_ids,       \* HashSet<String>
    comment_text_by_id,     \* HashMap<String, String>
    missing_references,     \* Vec<String>
    strict_reference_validation,  \* ConvertOptions field
    rpc,                    \* position of the conversion: "extract" or "done"
    calls,                  \* history: <<kind, id, marker>> of every register call so far
    cresult,                \* what convert_inner returned
    drained,                \* history: what each take_missing_references call returned
    \* ---- NumberingResolver ----
    num_instances,    \* HashMap<i32, i32>: numId -> abstractNumId
    abstract_nums,    \* HashMap<i32, Vec<LevelDef>>
    overrides,        \* HashMap<(i32, i32), i32>: (numId, ilvl) -> startOverride
    counters,         \* HashMap<i32, Vec<i32>>: abstractNumId -> counter per level
    level_shifts,     \* HashMap<i32, i32>: abstractNumId -> base level
    ncalls,           \* history: the next_marker calls made so far, in order
    indent,           \* the last get_indent call and what it returned
    \* ---- table grid builder ----
    impl,             \* which builder runs: "table_grid" (build_grid) or "table" (TableConverter)
    table,            \* the rows of the input table consumed so far (row items in order)
    grid,             \* Vec<Vec<CellStatus>>
    col_idx,          \* the column cursor of the row being processed
    gpc,              \* "build", "done" or "failed"
    html,             \* the lines render_grid produced
    renders,          \* history: the calls of the cell renderer, in order
    \* ---- DocxExtractor, ParagraphConverter and MarkdownRenderer ----
    body,             \* history: the body items consumed so far, with their conversion
    blocks,           \* DocumentAst.blocks
    dpc,              \* "body" (between body items), "paragraph" or "rendered"
    para,             \* the paragraph being converted: its format, the children consumed
    field_stack,      \* collect_segments: Vec<FieldPhase>
    segments,         \* collect_segments: Vec<FormattedSegment>
    markdown,         \* what MarkdownRenderer::render returned
    \* ---- conversions run from one DocxToMarkdown ----
    conversions,      \* per call of convert: its document, its position, its output
    locals            \* the resolver and context each call of convert_inner builds

styleVars == <<style_map, doc_defaults, spc, sargs, chain, current_id, merged, sresult>>

regVars == <<footnotes, footnote_index_by_id, footnote_text_by_id,
             endnotes, endnote_index_by_id, endnote_text_by_id,
             comments, seen_comment_ids, comment_text_by_id,
             missing_references, strict_reference_validation, rpc, calls, cresult,
             drained>>

numVars == <<num_instances, abstract_nums, overrides, counters, level_shifts, ncalls, indent>>

gridVars == <<impl, table, grid, col_idx, gpc, html, renders>>

docVars == <<body, blocks, dpc, para, field_stack, segments, markdown>>

convVars == <<conversions, locals>>

vars == <<styleVars, regVars, numVars, gridVars, docVars, convVars>>

\* What an operation of one component leaves alone: the other components.
\* The paragraph converter calls the registry and the numbering resolver, so
\* their operations say nothing about the document's variables.
notStyles == <<regVars, numVars, gridVars, docVars, convVars>>
notRegistry == <<styleVars, numVars, gridVars, convVars>>
notNumbering == <<styleVars, regVars, gridVars, convVars>>
notGrid == <<styleVars, regVars, numVars, docVars, convVars>>
notDocument == <<styleVars, regVars, numVars, gridVars, convVars>>

\* Option<String>-like fields hold NoneV when absent; Option<record> values are
\* None or Some(r).
NoneV == "None"
None == <<>>
Some(x) == <<x>>
Unwrap(o) == o[1]

\* Vec::resize(n, value) when the vector is not longer than n.
RECURSIVE Grow(_, _, _)
Grow(v, n, value) == IF Len(v) >= n THEN v ELSE Grow(Append(v, value), n, value)

(***************************************************************************)
(* StyleResolver                                                           *)
(***************************************************************************)

\* Bound: longest chain the walk may collect before the model stops following it.
MaxChain == 4

StyleIds == {"A", "B"}
\* "X" is an id that is not in the style table.
UnknownStyleId == "X"
StyleRefs == StyleIds \cup {UnknownStyleId}

\* CharacterProperty::default(): every tracked field absent.
DefaultCharProps == [bold |-> NoneV, italics |-> NoneV, strike |-> NoneV, underline |-> NoneV]
\* ParagraphProperty::default()
DefaultParaProps == [justification |-> NoneV, numbering |-> NoneV, style_id |-> NoneV]

\* The character property sets styles, defaults and runs are drawn from.
CharPropChoices ==
    { DefaultCharProps,
      [bold |-> "on",  italics |-> NoneV, strike |-> NoneV, underline |-> NoneV],
      [bold |-> "off", italics |-> "on",  strike |-> "on",  underline |-> "single"] }

ParaPropChoices ==
    { DefaultParaProps,
      [justification |-> "center", numbering |-> NoneV, style_id |-> "A"],
      [justification |-> NoneV, numbering |-> "num1lvl0", style_id |-> NoneV] }

\* styles.rs 147-168: each tracked field is taken from the overlay when the
\* overlay has it.
merge_char_props_whole_overlay(base, overlay) == overlay
merge_char_props(base, overlay) ==
    [bold      |-> IF overlay.bold      # NoneV THEN overlay.bold      ELSE base.bold,
     italics   |-> IF overlay.italics   # NoneV THEN overlay.italics   ELSE base.italics,
     strike    |-> IF overlay.strike    # NoneV THEN overlay.strike    ELSE base.strike,
     underline |-> IF overlay.underline # NoneV THEN overlay.underline ELSE base.underline]

merge_para_props(base, overlay) ==
    [justification |-> IF overlay.justification # NoneV THEN overlay.justification
                       ELSE base.justification,
     numbering     |-> IF overlay.numbering # NoneV THEN overlay.numbering ELSE base.numbering,
     style_id      |-> IF overlay.style_id # NoneV THEN overlay.style_id ELSE base.style_id]

\* `for style in chain.into_iter().rev()`: merge the chain from its last
\* element (root) to its first (leaf); `field` selects character or paragraph.
RECURSIVE ApplyChainChar(_, _)
ApplyChainChar(target, ch) ==
    IF ch = <<>> THEN target
    ELSE LET style == style_map[ch[Len(ch)]]
             t2 == IF style.character # None
                   THEN merge_char_props(target, Unwrap(style.character)) ELSE target
         IN ApplyChainChar(t2, SubSeq(ch, 1, Len(ch) - 1))

RECURSIVE ApplyChainPara(_, _)
ApplyChainPara(target, ch) ==
    IF ch = <<>> THEN target
    ELSE LET style == style_map[ch[Len(ch)]]
             t2 == IF style.paragraph # None
                   THEN merge_para_props(target, Unwrap(style.paragraph)) ELSE target
         IN ApplyChainPara(t2, SubSeq(ch, 1, Len(ch) - 1))

OptCharProps == {None} \cup {Some(p) : p \in CharPropChoices}
OptParaProps == {None} \cup {Some(p) : p \in ParaPropChoices}

StyleRecords ==
    [base : {NoneV} \cup StyleRefs, character : OptCharProps, paragraph : OptParaProps]

\* The style tables the resolver is built over (StyleResolver::new).
StyleTables ==
    { t \in [StyleIds -> StyleRecords] :
        /\ t["A"].character \in {None, Some([bold |-> "on", italics |-> NoneV, strike |-> NoneV, underline |-> NoneV])}
        /\ t["B"].character \in {None, Some([bold |-> "off", italics |-> "on", strike |-> "on", underline |-> "single"])}
        /\ t["A"].paragraph \in {None, Some([justification |-> "center", numbering |-> NoneV, style_id |-> "A"])}
        /\ t["B"].paragraph \in {None, Some([justification |-> NoneV, numbering |-> "num1lvl0", style_id |-> NoneV])} }

NoArgs == [kind |-> "none", direct |-> None, run_style_id |-> NoneV, para_style_id |-> NoneV]

InitStylesIdle ==
    /\ spc = "idle"
    /\ sargs = NoArgs
    /\ chain = <<>>
    /\ current_id = NoneV
    /\ merged = None
    /\ sresult = None

\* styles.default: absent, or carrying both a character and a paragraph default.
DocDefaultChoices ==
    { [character |-> None, paragraph |-> None],
      [character |-> Some([bold |-> NoneV, italics |-> "on", strike |-> NoneV, underline |-> NoneV]),
       paragraph |-> Some([justification |-> "right", numbering |-> NoneV, style_id |-> NoneV])] }

StylesStart ==
    /\ style_map \in StyleTables
    /\ doc_defaults \in DocDefaultChoices
    /\ InitStylesIdle

\* The resolver as the other specifications hold it: an empty style table.
StylesQuiet ==
    /\ style_map = [s \in {} |-> None]
    /\ doc_defaults = [character |-> None, paragraph |-> None]
    /\ InitStylesIdle

\* resolve_run_property, lines 35-42: start from the defaults.
ResolveRunBegin(direct, rid, pid) ==
    /\ spc = "idle"
    /\ sargs' = [kind |-> "run", direct |-> direct, run_style_id |-> rid, para_style_id |-> pid]
    /\ merged' = IF doc_defaults.character # None
                 THEN Some(merge_char_props(DefaultCharProps, Unwrap(doc_defaults.character)))
                 ELSE Some(DefaultCharProps)
    /\ spc' = "run_para_style"
    /\ sresult' = None
    /\ UNCHANGED <<style_map, doc_defaults, chain, current_id>>
    /\ UNCHANGED notStyles

\* resolve_run_property, lines 44-47: enter the paragraph style chain.
ResolveRunParaStyle ==
    /\ spc = "run_para_style"
    /\ IF sargs.para_style_id # NoneV
       THEN /\ chain' = <<>>
            /\ current_id' = sargs.para_style_id
            /\ spc' = "walk_para_style"
       ELSE /\ spc' = "run_run_style"
            /\ UNCHANGED <<chain, current_id>>
    /\ UNCHANGED <<style_map, doc_defaults, sargs, merged, sresult>>
    /\ UNCHANGED notStyles

\* resolve_run_property, lines 49-52: enter the run style chain.
ResolveRunRunStyle ==
    /\ spc = "run_run_style"
    /\ IF sargs.run_style_id # NoneV
       THEN /\ chain' = <<>>
            /\ current_id' = sargs.run_style_id
            /\ spc' = "walk_run_style"
       ELSE /\ spc' = "run_direct"
            /\ UNCHANGED <<chain, current_id>>
    /\ UNCHANGED <<style_map, doc_defaults, sargs, merged, sresult>>
    /\ UNCHANGED notStyles

\* resolve_run_property, lines 54-59: direct formatting, then return.
ResolveRunDirect ==
    /\ spc = "run_direct"
    /\ sresult' = IF sargs.direct # None
                  THEN Some(merge_char_props(Unwrap(merged), Unwrap(sargs.direct)))
                  ELSE merged
    /\ spc' = "idle"
    /\ merged' = None
    /\ chain' = <<>>
    /\ current_id' = NoneV
    /\ UNCHANGED <<style_map, doc_defaults, sargs>>
    /\ UNCHANGED notStyles

\* resolve_paragraph_property, lines 68-80.
ResolveParaBegin(direct, pid) ==
    /\ spc = "idle"
    /\ sargs' = [kind |-> "para", direct |-> direct, run_style_id |-> NoneV, para_style_id |-> pid]
    /\ merged' = IF doc_defaults.paragraph # None
                 THEN Some(merge_para_props(DefaultParaProps, Unwrap(doc_defaults.paragraph)))
                 ELSE Some(DefaultParaProps)
    /\ sresult' = None
    /\ IF pid # NoneV
       THEN /\ chain' = <<>>
            /\ current_id' = pid
            /\ spc' = "walk_para_style"
       ELSE /\ spc' = "para_direct"
            /\ UNCHANGED <<chain, current_id>>
    /\ UNCHANGED <<style_map, doc_defaults>>
    /\ UNCHANGED notStyles

\* resolve_paragraph_property, lines 82-87.
ResolveParaDirect ==
    /\ spc = "para_direct"
    /\ sresult' = IF sargs.direct # None
                  THEN Some(merge_para_props(Unwrap(merged), Unwrap(sargs.direct)))
                  ELSE merged
    /\ spc' = "idle"
    /\ merged' = None
    /\ chain' = <<>>
    /\ current_id' = NoneV
    /\ UNCHANGED <<style_map, doc_defaults, sargs>>
    /\ UNCHANGED notStyles

Walking == spc \in {"walk_para_style", "walk_run_style"}

\* The condition of `while let Some(id) = current_id` together with
\* `if let Some(style) = self.style_map.get(id)`: nothing else ends the loop.
WalkContinues == current_id # NoneV /\ current_id \in DOMAIN style_map

\* One iteration of the collection loop (styles.rs 107-114 / 128-135).
ChainWalkStep ==
    /\ Walking
    /\ WalkContinues
    /\ Len(chain) < MaxChain
    /\ chain' = Append(chain, current_id)
    /\ current_id' = style_map[current_id].base
    /\ UNCHANGED <<style_map, doc_defaults, spc, sargs, merged, sresult>>
    /\ UNCHANGED notStyles

\* styles.rs 112-114 / 133-135: `else { break; }` on an id the table does not
\* hold leaves the loop with the styles collected so far.
CollectedChain_dropped_on_unknown == IF current_id # NoneV THEN <<>> ELSE chain
CollectedChain == chain

\* The loop has ended: apply the chain root to leaf (styles.rs 116-121 / 137-141).
ChainWalkEnd ==
    /\ Walking
    /\ ~WalkContinues
    /\ merged' = IF sargs.kind = "run" THEN Some(ApplyChainChar(Unwrap(merged), CollectedChain))
                 ELSE Some(ApplyChainPara(Unwrap(merged), CollectedChain))
    /\ spc' = IF sargs.kind = "para" THEN "para_direct"
              ELSE IF spc = "walk_para_style" THEN "run_run_style" ELSE "run_direct"
    /\ UNCHANGED <<style_map, doc_defaults, sargs, chain, current_id, sresult>>
    /\ UNCHANGED notStyles

NextStyles ==
    \/ \E direct \in OptCharProps, rid \in {NoneV} \cup StyleRefs,
          pid \in {NoneV} \cup StyleRefs : ResolveRunBegin(direct, rid, pid)
    \/ ResolveRunParaStyle
    \/ ResolveRunRunStyle
    \/ ResolveRunDirect
    \/ \E direct \in OptParaProps, pid \in {NoneV} \cup StyleRefs :
          ResolveParaBegin(direct, pid)
    \/ ResolveParaDirect
    \/ ChainWalkStep
    \/ ChainWalkEnd

\* True when the sequence holds no element twice.
NoRepeat(s) == \A i, j \in 1..Len(s) : i # j => s[i] # s[j]

(***************************************************************************)
(* ConversionContext: the reference registry, and convert_inner            *)
(***************************************************************************)

\* Bound: number of register calls one conversion makes.
MaxRefs == 3
\* Bound: note and comment identifiers run over 1..MaxId.
MaxId == 2

NoteIds == 1..MaxId

Digit(d) == CASE d = 0 -> "0" [] d = 1 -> "1" [] d = 2 -> "2" [] d = 3 -> "3" [] d = 4 -> "4"
              [] d = 5 -> "5" [] d = 6 -> "6" [] d = 7 -> "7" [] d = 8 -> "8" [] d = 9 -> "9"

\* Display of a non-negative integer (`{}` in format!).
RECURSIVE DecStr(_)
DecStr(n) == IF n < 10 THEN Digit(n) ELSE DecStr(n \div 10) \o Digit(n % 10)

\* Comment identifiers are strings in the source document.
CommentIds == {DecStr(i) : i \in NoteIds}

\* Bodies held by the note/comment containers of the document; the note with
\* id 2 is defined with an empty body.
FootnoteBody(id) == IF id = 2 THEN "" ELSE "fn-" \o DecStr(id)
EndnoteBody(id) == IF id = 2 THEN "" ELSE "en-" \o DecStr(id)
CommentBody(id) == IF id = "2" THEN "" ELSE "comment-" \o id

\* ConversionContext::new, lines 37-117: the three text maps come from the
\* document's containers, every list and cache starts empty.
RegistryNew(fdef, edef, cdef) ==
    /\ footnote_text_by_id = [id \in fdef |-> FootnoteBody(id)]
    /\ endnote_text_by_id = [id \in edef |-> EndnoteBody(id)]
    /\ comment_text_by_id = [id \in cdef |-> CommentBody(id)]
    /\ footnotes = <<>>
    /\ footnote_index_by_id = [id \in {} |-> 0]
    /\ endnotes = <<>>
    /\ endnote_index_by_id = [id \in {} |-> 0]
    /\ comments = <<>>
    /\ seen_comment_ids = {}
    /\ missing_references = <<>>
    /\ calls = <<>>
    /\ cresult = None
    /\ drained = <<>>

RegistryStart ==
    /\ \E fdef \in SUBSET NoteIds, edef \in SUBSET NoteIds, cdef \in SUBSET CommentIds :
          RegistryNew(fdef, edef, cdef)
    /\ strict_reference_validation \in BOOLEAN
    /\ rpc = "extract"

RegistryQuiet ==
    /\ RegistryNew({}, {}, {})
    /\ strict_reference_validation = FALSE
    /\ rpc = "done"

footnote_marker(idx) == "[^" \o DecStr(idx) \o "]"
endnote_marker(idx) == "[^en" \o DecStr(idx) \o "]"
comment_marker(id) == "[^c" \o id \o "]"

\* context.rs 147-148 / 168-169: `push(text); let idx = list.len();`, the
\* index of the body just pushed onto list.
IndexAfterPush_counted_from_zero(list) == Len(list)
IndexAfterPush(list) == Len(list) + 1

\* context.rs 121: the comment was registered before.
comment_seen_never(id) == FALSE
comment_seen(id) == id \in seen_comment_ids

\* context.rs 135: the identifier already has an index.
footnote_cached_never(id) == FALSE
footnote_cached(id) == id \in DOMAIN footnote_index_by_id

\* context.rs 134-153
register_footnote_reference(id) ==
    /\ rpc = "extract"
    /\ Len(calls) < MaxRefs
    /\ IF footnote_cached(id)
       THEN /\ calls' = Append(calls, <<"footnote", DecStr(id),
                                        footnote_marker(footnote_index_by_id[id])>>)
            /\ UNCHANGED <<footnotes, footnote_index_by_id, missing_references>>
       ELSE LET found == id \in DOMAIN footnote_text_by_id
                footnote_text == IF found THEN footnote_text_by_id[id] ELSE ""
                idx == IndexAfterPush(footnotes)
            IN /\ missing_references' =
                     IF found THEN missing_references
                     ELSE Append(missing_references, "footnote:" \o DecStr(id))
               /\ footnotes' = Append(footnotes, footnote_text)
               /\ footnote_index_by_id' = (id :> idx) @@ footnote_index_by_id
               /\ calls' = Append(calls, <<"footnote", DecStr(id), footnote_marker(idx)>>)
    /\ UNCHANGED <<footnote_text_by_id, endnotes, endnote_index_by_id, endnote_text_by_id,
                   comments, seen_comment_ids, comment_text_by_id,
                   strict_reference_validation, rpc, cresult, drained>>
    /\ UNCHANGED notRegistry

\* context.rs 168-169: the list whose length gives the index of an endnote.
EndnoteList_shared_with_footnotes == footnotes \o endnotes
EndnoteList == endnotes

\* context.rs 155-174
register_endnote_reference(id) ==
    /\ rpc = "extract"
    /\ Len(calls) < MaxRefs
    /\ IF id \in DOMAIN endnote_index_by_id
       THEN /\ calls' = Append(calls, <<"endnote", DecStr(id),
                                        endnote_marker(endnote_index_by_id[id])>>)
            /\ UNCHANGED <<endnotes, endnote_index_by_id, missing_references>>
       ELSE LET found == id \in DOMAIN endnote_text_by_id
                endnote_text == IF found THEN endnote_text_by_id[id] ELSE ""
                idx == IndexAfterPush(EndnoteList)
            IN /\ missing_references' =
                     IF found THEN missing_references
                     ELSE Append(missing_references, "endnote:" \o DecStr(id))
               /\ endnotes' = Append(endnotes, endnote_text)
               /\ endnote_index_by_id' = (id :> idx) @@ endnote_index_by_id
               /\ calls' = Append(calls, <<"endnote", DecStr(id), endnote_marker(idx)>>)
    /\ UNCHANGED <<footnotes, footnote_index_by_id, footnote_text_by_id, endnote_text_by_id,
                   comments, seen_comment_ids, comment_text_by_id,
                   strict_reference_validation, rpc, cresult, drained>>
    /\ UNCHANGED notRegistry

\* context.rs 120-132
register_comment_reference(id) ==
    /\ rpc = "extract"
    /\ Len(calls) < MaxRefs
    /\ IF ~comment_seen(id)
       THEN LET found == id \in DOMAIN comment_text_by_id
                comment_text == IF found THEN comment_text_by_id[id] ELSE ""
            IN /\ missing_references' =
                     IF found THEN missing_references
                     ELSE Append(missing_references, "comment:" \o id)
               /\ comments' = Append(comments, <<id, comment_text>>)
               /\ seen_comment_ids' = seen_comment_ids \cup {id}
       ELSE UNCHANGED <<comments, seen_comment_ids, missing_references>>
    /\ calls' = Append(calls, <<"comment", id, comment_marker(id)>>)
    /\ UNCHANGED <<footnotes, footnote_index_by_id, footnote_text_by_id,
                   endnotes, endnote_index_by_id, endnote_text_by_id, comment_text_by_id,
                   strict_reference_validation, rpc, cresult, drained>>
    /\ UNCHANGED notRegistry

\* `missing.join(", ")`
RECURSIVE Join(_)
Join(s) == IF s = <<>> THEN ""
           ELSE IF Len(s) = 1 THEN s[1]
           ELSE s[1] \o ", " \o Join(Tail(s))

\* context.rs 176-182
reference_definitions ==
    [footnotes |-> footnotes, endnotes |-> endnotes, comments |-> comments]

\* mod.rs 174-177: the conversion is refused.
StrictFailure_whatever_the_option(missing) == missing # <<>>
StrictFailure(missing) == strict_reference_validation /\ missing # <<>>

\* mod.rs 172-181: after the extraction, collect the definitions, apply the
\* strict check (take_missing_references drains the list), then render.
ConvertFinish ==
    /\ rpc = "extract"
    /\ rpc' = "done"
    /\ missing_references' = IF strict_reference_validation THEN <<>> ELSE missing_references
    /\ cresult' = IF StrictFailure(missing_references)
                  THEN Some([ok |-> FALSE, kind |-> "MissingReference",
                             msg |-> Join(missing_references),
                             references |-> [footnotes |-> <<>>, endnotes |-> <<>>,
                                             comments |-> <<>>]])
                  ELSE Some([ok |-> TRUE, kind |-> "", msg |-> "",
                             references |-> reference_definitions])
    /\ UNCHANGED <<footnotes, footnote_index_by_id, footnote_text_by_id,
                   endnotes, endnote_index_by_id, endnote_text_by_id,
                   comments, seen_comment_ids, comment_text_by_id,
                   strict_reference_validation, calls, drained>>
    /\ UNCHANGED notRegistry

NextRegistry ==
    \/ \E id \in NoteIds : register_footnote_reference(id) /\ UNCHANGED docVars
    \/ \E id \in NoteIds : register_endnote_reference(id) /\ UNCHANGED docVars
    \/ \E id \in CommentIds : register_comment_reference(id) /\ UNCHANGED docVars
    \/ ConvertFinish /\ UNCHANGED docVars

\* Bound: number of take_missing_references calls made on one context.
MaxTakes == 2

\* std::mem::take: what is left in place of the vector taken.
mem_take_leaves_it(list) == list
mem_take_leaves(list) == <<>>

\* context.rs 260-262, called on the context between registrations; the
\* history keeps what the call returned and how many registrations came before.
take_missing_references ==
    /\ rpc = "extract"
    /\ Len(drained) < MaxTakes
    /\ drained' = Append(drained, [at |-> Len(calls), returned |-> missing_references])
    /\ missing_references' = mem_take_leaves(missing_references)
    /\ UNCHANGED <<footnotes, footnote_index_by_id, footnote_text_by_id,
                   endnotes, endnote_index_by_id, endnote_text_by_id,
                   comments, seen_comment_ids, comment_text_by_id,
                   strict_reference_validation, rpc, calls, cresult>>
    /\ UNCHANGED notRegistry

\* The context used through its own interface: registrations and drains in
\* any order.  The documents define the same identifiers for the three kinds.
ContextStart ==
    /\ \E def \in SUBSET NoteIds :
          RegistryNew(def, def, {DecStr(i) : i \in def})
    /\ strict_reference_validation = FALSE
    /\ rpc = "extract"

NextContext ==
    \/ \E id \in NoteIds : register_footnote_reference(id) /\ UNCHANGED docVars
    \/ \E id \in NoteIds : register_endnote_reference(id) /\ UNCHANGED docVars
    \/ \E id \in CommentIds : register_comment_reference(id) /\ UNCHANGED docVars
    \/ take_missing_references /\ UNCHANGED docVars

(***************************************************************************)
(* NumberingResolver                                                       *)
(***************************************************************************)

\* Bound: number of next_marker calls made on one resolver.
MaxCalls == 3
\* Bound: paragraphs carry list levels 0..MaxLevel.
MaxLevel == 2

\* `vec![0; 10]`: the counter vector of an abstract list when first used.
CounterSlots == 10

\* `indent as usize`: the cast reinterprets a negative i32 as a value just below
\* the top of the usize range.  The range is scaled down to 2^30 here, which
\* the model's integers can hold.
UsizeModulus == 2 ^ 30

Levels == 0..MaxLevel

\* Strings that are searched or rewritten are sequences of characters.
Chars(n) == CASE n = 0 -> <<"0">> [] n = 1 -> <<"1">> [] n = 2 -> <<"2">> [] n = 3 -> <<"3">>
              [] n = 4 -> <<"4">> [] n = 5 -> <<"5">> [] n = 6 -> <<"6">> [] n = 7 -> <<"7">>
              [] n = 8 -> <<"8">> [] n = 9 -> <<"9">>

\* format!("{}", val) for an i32.
RECURSIVE DecChars(_)
DecChars(n) == IF n < 0 THEN <<"-">> \o DecChars(0 - n)
               ELSE IF n < 10 THEN Chars(n)
               ELSE DecChars(n \div 10) \o Chars(n % 10)

\* True when pat occurs in s at position i.
MatchAt(s, pat, i) ==
    /\ i + Len(pat) - 1 <= Len(s)
    /\ \A k \in 1..Len(pat) : s[i + k - 1] = pat[k]

\* str::contains
Contains(s, pat) == \E i \in 1..(Len(s) + 1) : MatchAt(s, pat, i)

\* str::replace: every non-overlapping occurrence, left to right.
RECURSIVE ReplaceFrom(_, _, _, _)
ReplaceFrom(s, pat, rep, i) ==
    IF i > Len(s) THEN <<>>
    ELSE IF MatchAt(s, pat, i) THEN rep \o ReplaceFrom(s, pat, rep, i + Len(pat))
    ELSE <<s[i]>> \o ReplaceFrom(s, pat, rep, i + 1)

Replace(s, pat, rep) == ReplaceFrom(s, pat, rep, 1)

LowerLetters == <<"a","b","c","d","e","f","g","h","i","j","k","l","m",
                  "n","o","p","q","r","s","t","u","v","w","x","y","z">>
UpperLetters == <<"A","B","C","D","E","F","G","H","I","J","K","L","M",
                  "N","O","P","Q","R","S","T","U","V","W","X","Y","Z">>

ROMAN_TABLE_without_pairs ==
    << <<1000, <<"M">> >>, <<500, <<"D">> >>, <<100, <<"C">> >>, <<50, <<"L">> >>,
       <<10, <<"X">> >>, <<5, <<"V">> >>, <<1, <<"I">> >> >>
ROMAN_TABLE == << <<1000, <<"M">> >>, <<900, <<"C","M">> >>, <<500, <<"D">> >>,
                  <<400, <<"C","D">> >>, <<100, <<"C">> >>, <<90, <<"X","C">> >>,
                  <<50, <<"L">> >>, <<40, <<"X","L">> >>, <<10, <<"X">> >>,
                  <<9, <<"I","X">> >>, <<5, <<"V">> >>, <<4, <<"I","V">> >>, <<1, <<"I">> >> >>

\* The loops of to_roman: table entry k, remaining value num.
RECURSIVE RomanFrom(_, _)
RomanFrom(num, k) ==
    IF k > Len(ROMAN_TABLE) THEN <<>>
    ELSE IF num >= ROMAN_TABLE[k][1]
         THEN ROMAN_TABLE[k][2] \o RomanFrom(num - ROMAN_TABLE[k][1], k)
         ELSE RomanFrom(num, k + 1)

to_roman(num) == IF num <= 0 THEN DecChars(num) ELSE RomanFrom(num, 1)

LowerOf(c) == CASE c = "M" -> "m" [] c = "D" -> "d" [] c = "C" -> "c" [] c = "L" -> "l"
                [] c = "X" -> "x" [] c = "V" -> "v" [] c = "I" -> "i" [] OTHER -> c

RECURSIVE to_lowercase(_)
to_lowercase(s) == IF s = <<>> THEN <<>> ELSE <<LowerOf(s[1])>> \o to_lowercase(Tail(s))

format_num(fmt, val) ==
    CASE fmt \in {"bullet", "none"} -> <<"-">>
      [] fmt = "decimal" -> DecChars(val)
      [] fmt = "lowerLetter" ->
            IF val >= 1 /\ val <= 26 THEN <<LowerLetters[val]>> ELSE DecChars(val)
      [] fmt = "upperLetter" ->
            IF val >= 1 /\ val <= 26 THEN <<UpperLetters[val]>> ELSE DecChars(val)
      [] fmt = "lowerRoman" -> to_lowercase(to_roman(val))
      [] fmt = "upperRoman" -> to_roman(val)
      [] OTHER -> DecChars(val)

\* levels.sort_by_key(|l| l.ilvl): a stable sort.
RECURSIVE InsertByIlvl(_, _)
InsertByIlvl(sorted, l) ==
    IF sorted = <<>> THEN <<l>>
    ELSE IF sorted[Len(sorted)].ilvl <= l.ilvl THEN Append(sorted, l)
    ELSE Append(InsertByIlvl(SubSeq(sorted, 1, Len(sorted) - 1), l), sorted[Len(sorted)])

RECURSIVE SortByIlvl(_)
SortByIlvl(ls) ==
    IF ls = <<>> THEN <<>>
    ELSE InsertByIlvl(SortByIlvl(SubSeq(ls, 1, Len(ls) - 1)), ls[Len(ls)])

\* The two Hangul syllables of the "Article" pattern, U+C81C and U+C870, each
\* one character of a level text.
JE == "U+C81C"
JO == "U+C870"

\* numbering.rs 62-63: the level text looks like an "Article" heading.
IsArticleText(lvl_text) ==
    /\ lvl_text # None
    /\ Contains(Unwrap(lvl_text), <<JE>>)
    /\ Contains(Unwrap(lvl_text), <<JO>>)
    /\ Contains(Unwrap(lvl_text), <<"%">>)

\* numbering.rs 45-76 for one abstract list: `level_shifts.entry(abs_id).or_insert(ilvl)`
\* over its levels in declaration order, starting from the shifts found so far.
RECURSIVE ShiftsOfLevels(_, _, _)
ShiftsOfLevels(shifts, abs_id, ls) ==
    IF ls = <<>> THEN shifts
    ELSE LET s2 == IF IsArticleText(ls[1].lvl_text) /\ abs_id \notin DOMAIN shifts
                   THEN (abs_id :> ls[1].ilvl) @@ shifts ELSE shifts
         IN ShiftsOfLevels(s2, abs_id, Tail(ls))

\* numbering.rs 41-80: the loop over the abstract numbering definitions.
RECURSIVE ParseAbstracts(_, _)
ParseAbstracts(acc, abstracts) ==
    IF abstracts = <<>> THEN acc
    ELSE LET a == abstracts[1]
             acc2 == [abstract_nums |-> (a.abstract_num_id :> SortByIlvl(a.levels))
                                        @@ acc.abstract_nums,
                      level_shifts |-> ShiftsOfLevels(acc.level_shifts, a.abstract_num_id,
                                                      a.levels)]
         IN ParseAbstracts(acc2, Tail(abstracts))

\* numbering.rs 91-99: the start overrides of one numbering instance.
RECURSIVE OverridesOf(_, _, _)
OverridesOf(acc, nid, lvl_overrides) ==
    IF lvl_overrides = <<>> THEN acc
    ELSE OverridesOf((<<nid, lvl_overrides[1].i_level>> :> lvl_overrides[1].start_override)
                     @@ acc, nid, Tail(lvl_overrides))

\* numbering.rs 83-101: the loop over the numbering instances.
RECURSIVE ParseInstances(_, _)
ParseInstances(acc, nums) ==
    IF nums = <<>> THEN acc
    ELSE LET n == nums[1]
             acc2 == [num_instances |-> (n.num_id :> n.abstract_num_id) @@ acc.num_instances,
                      overrides |-> OverridesOf(acc.overrides, n.num_id, n.level_overrides)]
         IN ParseInstances(acc2, Tail(nums))

EmptyMap == [x \in {} |-> 0]

\* NumberingResolver::new
NumberingNew(abstracts, nums) ==
    LET a == ParseAbstracts([abstract_nums |-> EmptyMap, level_shifts |-> EmptyMap], abstracts)
        n == ParseInstances([num_instances |-> EmptyMap, overrides |-> EmptyMap], nums)
    IN /\ num_instances = n.num_instances
       /\ abstract_nums = a.abstract_nums
       /\ overrides = n.overrides
       /\ counters = EmptyMap
       /\ level_shifts = a.level_shifts
       /\ ncalls = <<>>
       /\ indent = None

LevelDef(ilvl, start, num_fmt, lvl_text) ==
    [ilvl |-> ilvl, start |-> start, num_fmt |-> num_fmt, lvl_text |-> lvl_text]

\* Start values a level definition or an override may carry.
StartValues == {0, 1, 3}

\* The numbering part of the documents converted here.  Abstract list 1 is
\* shared by the instances 1 and 2 and declares the levels 0 and 1; abstract
\* list 2 (instance 3) is an "Article" list whose heading level is level 1;
\* instance 4 names an abstract list that does not exist, and no instance has
\* the id 5.  s0, s1 are the start values of list 1, ov the start overrides of
\* instance 2.
NumberingDoc(s0, s1, ov) ==
    [abstracts |->
        << [abstract_num_id |-> 1,
            levels |-> << LevelDef(0, s0, "decimal", None),
                          LevelDef(1, s1, "lowerLetter", Some(<<"%","1",".","%","2",")">>)) >>],
           [abstract_num_id |-> 2,
            levels |-> << LevelDef(1, 1, "decimal", Some(<<JE,"%","2",JO>>)),
                          LevelDef(2, 1, "decimal", Some(<<"%","3",".">>)) >>] >>,
     nums |->
        << [num_id |-> 1, abstract_num_id |-> 1, level_overrides |-> <<>>],
           [num_id |-> 2, abstract_num_id |-> 1, level_overrides |-> ov],
           [num_id |-> 3, abstract_num_id |-> 2, level_overrides |-> <<>>],
           [num_id |-> 4, abstract_num_id |-> 9, level_overrides |-> <<>>] >>]

OverrideChoices ==
    { <<>>,
      << [i_level |-> 0, start_override |-> 5], [i_level |-> 1, start_override |-> 7] >> }

NumIds == 1..5

NumberingStart ==
    \E s0 \in StartValues, ov \in OverrideChoices :
        LET d == NumberingDoc(s0, 3, ov) IN NumberingNew(d.abstracts, d.nums)

NumberingQuiet == NumberingNew(<<>>, <<>>)

\* i32::saturating_sub: clamps at the bounds of i32, not at zero.
I32Min == 0 - 2147483647 - 1
I32Max == 2147483647
saturating_sub(a, b) ==
    IF a - b < I32Min THEN I32Min ELSE IF a - b > I32Max THEN I32Max ELSE a - b

\* `indent as usize` (numbering.rs 125).
as_usize(x) == x % UsizeModulus

\* numbering.rs 115-126
get_indent(num_id, ilvl) ==
    LET shifted == IF num_id \in DOMAIN num_instances
                      /\ num_instances[num_id] \in DOMAIN level_shifts
                   THEN saturating_sub(ilvl, level_shifts[num_instances[num_id]])
                   ELSE ilvl
    IN as_usize(shifted)

\* A call of get_indent, made as apply_paragraph_formatting makes it
\* (paragraph.rs 558-566): after next_marker, for the same list id and level.
\* It reads the resolver and changes nothing in it.
GetIndent(num_id, ilvl) ==
    /\ ncalls # <<>>
    /\ ncalls[Len(ncalls)].num_id = num_id
    /\ ncalls[Len(ncalls)].ilvl = ilvl
    /\ indent = None
    /\ indent' = Some([num_id |-> num_id, ilvl |-> ilvl, value |-> get_indent(num_id, ilvl)])
    /\ UNCHANGED <<num_instances, abstract_nums, overrides, counters, level_shifts, ncalls>>
    /\ UNCHANGED notNumbering

\* numbering.rs 144-147: `levels.iter().find(|l| l.ilvl == ilvl).or_else(|| levels.first())`
FindLevel(levels, ilvl) ==
    IF \E k \in 1..Len(levels) : levels[k].ilvl = ilvl
    THEN Some(levels[CHOOSE k \in 1..Len(levels) :
                        /\ levels[k].ilvl = ilvl
                        /\ \A j \in 1..(k - 1) : levels[j].ilvl # ilvl])
    ELSE IF levels # <<>> THEN Some(levels[1]) ELSE None

\* numbering.rs 141: the counters are kept per abstract list, not per instance.
CounterKey_per_instance(num_id, abs_id) == num_id
CounterKey(num_id, abs_id) == abs_id

\* numbering.rs 141: `self.counters.entry(abs_id).or_insert_with(|| vec![0; 10])`
CountersEntry(key) ==
    IF key \in DOMAIN counters THEN counters[key] ELSE Grow(<<>>, CounterSlots, 0)

\* numbering.rs 154-157: `counters.resize(ilvl_idx + 1, 0)` when the vector is short.
Resized(cs, ilvl) ==
    IF Len(cs) <= ilvl THEN Grow(cs, ilvl + 1, 0) ELSE cs

AdvanceLevel_by_two(cs, num_id, ilvl, level) == [cs EXCEPT ![ilvl + 1] = @ + 2]

\* numbering.rs 160-169: initialise the level's counter or advance it.
\* Level ilvl is slot ilvl + 1 of the sequence.
AdvanceLevel(cs, num_id, ilvl, level) ==
    IF cs[ilvl + 1] = 0
    THEN [cs EXCEPT ![ilvl + 1] =
             IF <<num_id, ilvl>> \in DOMAIN overrides THEN overrides[<<num_id, ilvl>>]
             ELSE level.start]
    ELSE [cs EXCEPT ![ilvl + 1] = @ + 1]

\* numbering.rs 171-174: reset the deeper levels.
ResetDeeper_skipped(cs, ilvl) == cs
ResetDeeper(cs, ilvl) == SubSeq(cs, 1, ilvl + 1) \o Grow(<<>>, Len(cs) - (ilvl + 1), 0)

FormatOfLevel_always_decimal(levels, i) == "decimal"

\* numbering.rs 185-189: the number format of level i, "decimal" when undeclared.
FormatOfLevel(levels, i) ==
    IF \E k \in 1..Len(levels) : levels[k].ilvl = i
    THEN levels[CHOOSE k \in 1..Len(levels) :
                    /\ levels[k].ilvl = i
                    /\ \A j \in 1..(k - 1) : levels[j].ilvl # i].num_fmt
    ELSE "decimal"

\* numbering.rs 180-197: substitute the placeholders %1, %2, ... in counter order.
RECURSIVE Substitute(_, _, _, _)
Substitute(marker, cs, levels, i) ==
    IF i >= Len(cs) THEN marker
    ELSE LET placeholder == <<"%">> \o DecChars(i + 1)
             val == IF cs[i + 1] = 0 THEN 1 ELSE cs[i + 1]
             m2 == IF Contains(marker, placeholder)
                   THEN Replace(marker, placeholder, format_num(FormatOfLevel(levels, i), val))
                   ELSE marker
         IN Substitute(m2, cs, levels, i + 1)

\* numbering.rs 176-208: the marker text.
MarkerText(cs, levels, level, ilvl) ==
    IF level.lvl_text # None
    THEN Substitute(Unwrap(level.lvl_text), cs, levels, 0)
    ELSE LET raw_num == format_num(level.num_fmt, cs[ilvl + 1])
         IN IF level.num_fmt \in {"decimal", "lowerLetter", "upperLetter",
                                   "lowerRoman", "upperRoman"}
            THEN raw_num \o <<".">>
            ELSE raw_num

\* What the history keeps of one next_marker call: its arguments, the marker
\* returned and the value the counter of the level had when it returned
\* (-1 when the call did not reach the counters).
CallRecord(num_id, ilvl, marker, counter) ==
    [num_id |-> num_id, ilvl |-> ilvl, marker |-> marker, counter |-> counter]

UnresolvedMarker_numbered == <<"1", ".">>

\* numbering.rs 131-137: what next_marker returns for a list id without an
\* instance, or whose abstract definition is missing.
UnresolvedMarker == <<"-">>

\* numbering.rs 130-209
next_marker(num_id, ilvl) ==
    /\ Len(ncalls) < MaxCalls
    /\ IF num_id \notin DOMAIN num_instances
       THEN /\ ncalls' = Append(ncalls, CallRecord(num_id, ilvl, UnresolvedMarker, 0 - 1))
            /\ UNCHANGED counters
       ELSE LET abs_id == num_instances[num_id] IN
            IF abs_id \notin DOMAIN abstract_nums
            THEN /\ ncalls' = Append(ncalls, CallRecord(num_id, ilvl, UnresolvedMarker, 0 - 1))
                 /\ UNCHANGED counters
            ELSE LET levels == abstract_nums[abs_id]
                     key == CounterKey(num_id, abs_id)
                     entry == CountersEntry(key)
                     level_def == FindLevel(levels, ilvl)
                 IN IF level_def = None
                    THEN /\ counters' = (key :> entry) @@ counters
                         /\ ncalls' = Append(ncalls, CallRecord(num_id, ilvl, <<"-">>, 0 - 1))
                    ELSE LET level == Unwrap(level_def)
                             cs == ResetDeeper(AdvanceLevel(Resized(entry, ilvl),
                                                            num_id, ilvl, level), ilvl)
                         IN /\ counters' = (key :> cs) @@ counters
                            /\ ncalls' = Append(ncalls,
                                   CallRecord(num_id, ilvl,
                                              MarkerText(cs, levels, level, ilvl),
                                              cs[ilvl + 1]))
    /\ indent' = None
    /\ UNCHANGED <<num_instances, abstract_nums, overrides, level_shifts>>
    /\ UNCHANGED notNumbering

NextNumbering ==
    \/ \E num_id \in NumIds, ilvl \in Levels : next_marker(num_id, ilvl) /\ UNCHANGED docVars
    \/ \E num_id \in NumIds, ilvl \in Levels : GetIndent(num_id, ilvl) /\ UNCHANGED docVars

(***************************************************************************)
(* Table grid builder: build_grid / render_grid (table_grid.rs) and        *)
(* TableConverter::convert (table.rs)                                      *)
(***************************************************************************)

\* Bound: rows of the input table.
MaxRows == 3
\* Bound: columns a row's cells may span in total.
MaxCols == 2
\* Bound: structured-document-tag items among the rows of the table.
MaxSdt == 1

\* The four forms of a cell's vertical-merge property: no vMerge element, a
\* vMerge element without a value, val = restart, val = continue.
VMergeForms == {"absent", "noval", "restart", "continue"}

\* table_grid.rs 50-55 / table.rs 61-71
is_v_merge_restart(v_merge) == v_merge = "restart"
is_v_merge_continue(v_merge) == v_merge # "absent" /\ ~is_v_merge_restart(v_merge)

Occupied(content, rowspan, colspan) ==
    [status |-> "Occupied", content |-> content, rowspan |-> rowspan, colspan |-> colspan]
MergedLeft == [status |-> "MergedLeft", content |-> "", rowspan |-> 0, colspan |-> 0]
MergedUp == [status |-> "MergedUp", content |-> "", rowspan |-> 0, colspan |-> 0]
Empty == [status |-> "Empty", content |-> "", rowspan |-> 0, colspan |-> 0]

\* Rows and columns are counted from 0 as in the source; row r is grid[r + 1]
\* and its column c is grid[r + 1][c + 1].
At(g, r, c) == g[r + 1][c + 1]


\* table_grid.rs 126-134 / table.rs 167-175
set_grid_cell(g, row, col, status) ==
    LET g1 == IF Len(g) <= row THEN Grow(g, row + 1, <<>>) ELSE g
        g2 == IF Len(g1[row + 1]) <= col
              THEN [g1 EXCEPT ![row + 1] = Grow(@, col + 1, Empty)] ELSE g1
    IN [g2 EXCEPT ![row + 1][col + 1] = status]

BumpRowspan(g, row, col) == [g EXCEPT ![row + 1][col + 1].rowspan = @ + 1]

\* table_grid.rs 161-175: look left of col in target_row for the Occupied cell
\* whose colspan covers col; the result is its column, or -1.
RECURSIVE FindMaster(_, _, _, _)
FindMaster(g, target_row, col, master_col) ==
    IF master_col <= 0 THEN 0 - 1
    ELSE LET m == master_col - 1
             c == At(g, target_row, m)
         IN IF c.status = "MergedLeft" THEN FindMaster(g, target_row, col, m)
            ELSE IF c.status = "Occupied"
                 THEN IF m + c.colspan > col THEN m ELSE 0 - 1
                 ELSE 0 - 1

\* table_grid.rs 142-188: the loop of increment_rowspan from target_row upward.
RECURSIVE IncrementFrom(_, _, _)
IncrementFrom(g, target_row, col) ==
    IF Len(g) <= target_row \/ Len(g[target_row + 1]) <= col THEN g
    ELSE LET c == At(g, target_row, col)
         IN CASE c.status = "Occupied" -> BumpRowspan(g, target_row, col)
              [] c.status = "MergedUp" ->
                    IF target_row = 0 THEN g ELSE IncrementFrom(g, target_row - 1, col)
              [] c.status = "MergedLeft" ->
                    LET found_master == FindMaster(g, target_row, col, col)
                    IN IF found_master >= 0 THEN BumpRowspan(g, target_row, found_master)
                       ELSE g
              [] OTHER -> g

\* table_grid.rs 136-189
increment_rowspan(g, current_row, col) ==
    IF current_row = 0 THEN g ELSE IncrementFrom(g, current_row - 1, col)

\* table.rs 184-216: the loop of TableConverter::increment_rowspan.
RECURSIVE TableIncrementFrom(_, _, _)
TableIncrementFrom(g, target_row, col) ==
    IF Len(g) <= target_row \/ Len(g[target_row + 1]) <= col THEN g
    ELSE LET c == At(g, target_row, col)
         IN CASE c.status = "Occupied" -> BumpRowspan(g, target_row, col)
              [] c.status = "MergedUp" ->
                    IF target_row = 0 THEN g ELSE TableIncrementFrom(g, target_row - 1, col)
              [] OTHER -> g

\* table.rs 177-217
TableConverter_increment_rowspan(g, current_row, col) ==
    IF current_row = 0 THEN g ELSE TableIncrementFrom(g, current_row - 1, col)

\* table_grid.rs 32-36: advance the cursor past the slots already claimed.
RECURSIVE SkipClaimed(_, _)
SkipClaimed(row, c) ==
    IF c < Len(row) /\ row[c + 1].status # "Empty" THEN SkipClaimed(row, c + 1) ELSE c

\* table_grid.rs 38-40: make the row reach the cursor.
ReachCursor(g, row_idx, c) ==
    IF Len(g[row_idx + 1]) <= c THEN [g EXCEPT ![row_idx + 1] = Grow(@, c + 1, Empty)] ELSE g

\* table_grid.rs 65-67: mark the columns col..col+span-1 as MergedUp.
RECURSIVE MarkMergedUp(_, _, _, _)
MarkMergedUp(g, row, col, n) ==
    IF n = 0 THEN g
    ELSE set_grid_cell(MarkMergedUp(g, row, col, n - 1), row, col + n - 1, MergedUp)

\* table_grid.rs 79-81: mark the columns col+1..col+span-1 as MergedLeft.
RECURSIVE MarkMergedLeft(_, _, _, _)
MarkMergedLeft(g, row, col, n) ==
    IF n <= 1 THEN g
    ELSE set_grid_cell(MarkMergedLeft(g, row, col, n - 1), row, col + n - 1, MergedLeft)

\* The text the cell renderer returns for the k-th item of row r.
CellText(r, k) == "r" \o DecStr(r) \o "i" \o DecStr(k)

\* Index of the row being processed (`row_idx`), -1 before the first row.
row_idx == Len(table) - 1

\* Total column span of the cells of a row.
RECURSIVE RowWidth(_)
RowWidth(items) ==
    IF items = <<>> THEN 0
    ELSE (IF items[1].kind = "cell" THEN items[1].grid_span ELSE 0) + RowWidth(Tail(items))

RECURSIVE SdtCount(_)
SdtCount(items) ==
    IF items = <<>> THEN 0
    ELSE (IF items[1].kind = "sdt" THEN 1 ELSE 0) + SdtCount(Tail(items))

RECURSIVE SdtTotal(_)
SdtTotal(t) == IF t = <<>> THEN 0 ELSE SdtCount(t[1]) + SdtTotal(Tail(t))

GridNew(which) ==
    /\ impl = which
    /\ table = <<>>
    /\ grid = <<>>
    /\ col_idx = 0
    /\ gpc = "build"
    /\ html = <<>>
    /\ renders = <<>>

GridQuiet ==
    /\ impl = "none"
    /\ table = <<>>
    /\ grid = <<>>
    /\ col_idx = 0
    /\ gpc = "done"
    /\ html = <<>>
    /\ renders = <<>>

\* table_grid.rs 25-30: the next row of the table begins.
BeginRow ==
    /\ gpc = "build"
    /\ Len(table) < MaxRows
    /\ table' = Append(table, <<>>)
    /\ grid' = IF Len(grid) <= Len(table) THEN Append(grid, <<>>) ELSE grid
    /\ col_idx' = 0
    /\ UNCHANGED <<impl, gpc, html, renders>>
    /\ UNCHANGED notGrid

\* table_grid.rs 57-61 / table.rs 73-79: the cell renderer is invoked for a
\* cell that is not a continuation.
RendererInvoked_for_every_cell(v_merge) == TRUE
RendererInvoked(v_merge) == ~is_v_merge_continue(v_merge)

\* What the history keeps of a call of the cell renderer: the row of the cell,
\* its place among the items of the row, and the text returned (None when the
\* renderer failed).
RenderCall(row, k, text) == [row |-> row, k |-> k, text |-> text]

\* The item record the input table holds for a cell.
CellItem(grid_span, v_merge) ==
    [kind |-> "cell", grid_span |-> grid_span, continue |-> is_v_merge_continue(v_merge)]

\* table_grid.rs 31-85: one table cell of the current row, the renderer succeeding.
ProcessCell(grid_span, v_merge) ==
    /\ gpc = "build"
    /\ table # <<>>
    /\ RowWidth(table[Len(table)]) + grid_span <= MaxCols
    /\ LET c0 == SkipClaimed(grid[row_idx + 1], col_idx)
           g0 == ReachCursor(grid, row_idx, c0)
           k == Len(table[Len(table)]) + 1
       IN /\ grid' =
               IF is_v_merge_continue(v_merge)
               THEN LET g1 == IF impl = "table_grid"
                              THEN increment_rowspan(g0, row_idx, c0)
                              ELSE TableConverter_increment_rowspan(g0, row_idx, c0)
                    IN MarkMergedUp(g1, row_idx, c0, grid_span)
               ELSE MarkMergedLeft(
                        set_grid_cell(g0, row_idx, c0,
                                      Occupied(CellText(row_idx, k), 1, grid_span)),
                        row_idx, c0, grid_span)
          /\ col_idx' = c0 + grid_span
    /\ table' = [table EXCEPT ![Len(table)] = Append(@, CellItem(grid_span, v_merge))]
    /\ renders' = IF RendererInvoked(v_merge)
                  THEN LET k == Len(table[Len(table)]) + 1
                       IN Append(renders, RenderCall(row_idx, k, Some(CellText(row_idx, k))))
                  ELSE renders
    /\ UNCHANGED <<impl, gpc, html>>
    /\ UNCHANGED notGrid

\* table_grid.rs 60 / table.rs 78: `convert_cell(cell)?` leaves build_grid with
\* the error of the renderer.
AfterRendererError_goes_on == "build"
AfterRendererError == "failed"

\* table_grid.rs 57-61: the renderer fails on a cell that is not a
\* continuation; `?` returns the error and no grid.
ProcessCellFails(grid_span, v_merge) ==
    /\ gpc = "build"
    /\ table # <<>>
    /\ RowWidth(table[Len(table)]) + grid_span <= MaxCols
    /\ ~is_v_merge_continue(v_merge)
    /\ LET c0 == SkipClaimed(grid[row_idx + 1], col_idx)
       IN /\ grid' = ReachCursor(grid, row_idx, c0)
          /\ col_idx' = c0
    /\ table' = [table EXCEPT ![Len(table)] = Append(@, CellItem(grid_span, v_merge))]
    /\ renders' = Append(renders, RenderCall(row_idx, Len(table[Len(table)]) + 1, None))
    /\ gpc' = AfterRendererError
    /\ UNCHANGED <<impl, html>>
    /\ UNCHANGED notGrid

\* table_grid.rs 31-40 and 86: a structured-document-tag item of the current row.
ProcessSdt ==
    /\ gpc = "build"
    /\ table # <<>>
    /\ SdtTotal(table) < MaxSdt
    /\ LET c0 == SkipClaimed(grid[row_idx + 1], col_idx)
       IN /\ grid' = ReachCursor(grid, row_idx, c0)
          /\ col_idx' = c0
    /\ table' = [table EXCEPT ![Len(table)] =
                    Append(@, [kind |-> "sdt", grid_span |-> 0, continue |-> FALSE])]
    /\ UNCHANGED <<impl, gpc, html, renders>>
    /\ UNCHANGED notGrid

Quote == "\""

\* table_grid.rs 99-117: what render_grid emits for one slot.
RenderSlot_with_both_spans(cell) ==
    CASE cell.status = "Occupied" ->
            << "    <td rowspan=" \o Quote \o DecStr(cell.rowspan) \o Quote
                  \o " colspan=" \o Quote \o DecStr(cell.colspan) \o Quote
                  \o ">" \o cell.content \o "</td>\n" >>
      [] cell.status \in {"MergedLeft", "MergedUp"} -> <<>>
      [] OTHER -> << "    <td></td>\n" >>
RenderSlot(cell) ==
    CASE cell.status = "Occupied" ->
            LET a1 == IF cell.rowspan > 1
                      THEN " rowspan=" \o Quote \o DecStr(cell.rowspan) \o Quote ELSE ""
                a2 == IF cell.colspan > 1
                      THEN " colspan=" \o Quote \o DecStr(cell.colspan) \o Quote ELSE ""
            IN << "    <td" \o a1 \o a2 \o ">" \o cell.content \o "</td>\n" >>
      [] cell.status \in {"MergedLeft", "MergedUp"} -> <<>>
      [] OTHER -> << "    <td></td>\n" >>

RECURSIVE RenderRow(_)
RenderRow(row) == IF row = <<>> THEN <<>> ELSE RenderSlot(row[1]) \o RenderRow(Tail(row))

RECURSIVE RenderRows(_)
RenderRows(g) ==
    IF g = <<>> THEN <<>>
    ELSE <<"  <tr>\n">> \o RenderRow(g[1]) \o <<"  </tr>\n">> \o RenderRows(Tail(g))

\* table_grid.rs 94-124 / table.rs 132-164
render_grid(g) == <<"<table>\n">> \o RenderRows(g) \o <<"</table>">>

\* table_grid.rs 91 and render_grid: the rows are exhausted, the grid is
\* returned and rendered.
FinishTable ==
    /\ gpc = "build"
    /\ gpc' = "done"
    /\ html' = render_grid(grid)
    /\ UNCHANGED <<impl, table, grid, col_idx, renders>>
    /\ UNCHANGED notGrid

NextGrid ==
    \/ BeginRow
    \/ \E grid_span \in 1..MaxCols, v_merge \in VMergeForms : ProcessCell(grid_span, v_merge)
    \/ \E grid_span \in 1..MaxCols, v_merge \in VMergeForms : ProcessCellFails(grid_span, v_merge)
    \/ ProcessSdt
    \/ FinishTable

(***************************************************************************)
(* ParagraphConverter (paragraph.rs), DocxExtractor (extractor.rs) and     *)
(* MarkdownRenderer (markdown.rs)                                          *)
(***************************************************************************)

\* Bound: number of body items one document holds.
MaxBlocks == 2
\* Bound: number of children one paragraph holds.
MaxChildren == 3
\* Bound: number of children of a paragraph of a whole document.
MaxDocChildren == 2

\* Text that is searched, trimmed or escaped is a sequence of characters;
\* StrOf gives the string holding the same characters.
RECURSIVE StrOf(_)
StrOf(cs) == IF cs = <<>> THEN "" ELSE cs[1] \o StrOf(Tail(cs))

\* The characters of the markers the registry returns and of the bodies the
\* document defines.
MarkerTexts ==
    {<<"[", "^">> \o DecChars(n) \o <<"]">> : n \in 1..(MaxRefs + 1)}
        \cup {<<"[", "^", "e", "n">> \o DecChars(n) \o <<"]">> : n \in 1..(MaxRefs + 1)}
        \cup {<<"[", "^", "c">> \o DecChars(i) \o <<"]">> : i \in NoteIds}

BodyTexts ==
    {<<>>} \cup {<<"f", "n", "-">> \o DecChars(i) : i \in NoteIds}
           \cup {<<"e", "n", "-">> \o DecChars(i) : i \in NoteIds}
           \cup {<<"c", "o", "m", "m", "e", "n", "t", "-">> \o DecChars(i) : i \in NoteIds}

IdTexts == {DecChars(i) : i \in NoteIds}

\* The characters of a string of the registry.
TextOf(s) == CHOOSE cs \in MarkerTexts \cup BodyTexts \cup IdTexts : StrOf(cs) = s

RECURSIVE Flatten(_)
Flatten(ss) == IF ss = <<>> THEN <<>> ELSE ss[1] \o Flatten(Tail(ss))

\* char::is_whitespace for the characters that occur here.
is_whitespace(c) == c \in {" ", "\t", "\n"}

RECURSIVE trim_start(_)
trim_start(s) == IF s # <<>> /\ is_whitespace(s[1]) THEN trim_start(Tail(s)) ELSE s

RECURSIVE trim_end(_)
trim_end(s) ==
    IF s # <<>> /\ is_whitespace(s[Len(s)]) THEN trim_end(SubSeq(s, 1, Len(s) - 1)) ELSE s

\* str::trim
trim(s) == trim_end(trim_start(s))

\* escape.rs 1-14
EscapeHtmlChar(ch) ==
    CASE ch = "&" -> <<"&", "a", "m", "p", ";">>
      [] ch = "<" -> <<"&", "l", "t", ";">>
      [] ch = ">" -> <<"&", "g", "t", ";">>
      [] ch = "\"" -> <<"&", "q", "u", "o", "t", ";">>
      [] ch = "'" -> <<"&", "#", "3", "9", ";">>
      [] OTHER -> <<ch>>

RECURSIVE escape_html_attr(_)
escape_html_attr(value) ==
    IF value = <<>> THEN <<>>
    ELSE EscapeHtmlChar(value[1]) \o escape_html_attr(Tail(value))

\* escape.rs 16-28
RECURSIVE escape_markdown_link_text(_)
escape_markdown_link_text(value) ==
    IF value = <<>> THEN <<>>
    ELSE (IF value[1] \in {"\\", "[", "]"} THEN <<"\\", value[1]>> ELSE <<value[1]>>)
             \o escape_markdown_link_text(Tail(value))

\* escape.rs 30-42
RECURSIVE escape_markdown_link_destination(_)
escape_markdown_link_destination(value) ==
    IF value = <<>> THEN <<>>
    ELSE (IF value[1] \in {"\\", "(", ")", " "} THEN <<"\\", value[1]>> ELSE <<value[1]>>)
             \o escape_markdown_link_destination(Tail(value))

\* paragraph.rs 14-24: FormattedSegment; anchor is None or Some(name).
FormattedSegment(text, is_bold, is_italic, has_underline, has_strike, is_insertion, is_deletion, anchor) ==
    [text |-> text, is_bold |-> is_bold, is_italic |-> is_italic,
     has_underline |-> has_underline, has_strike |-> has_strike,
     is_insertion |-> is_insertion, is_deletion |-> is_deletion, anchor |-> anchor]

\* FormattedSegment { text, ..Default::default() }
PlainSegment(text) ==
    FormattedSegment(text, FALSE, FALSE, FALSE, FALSE, FALSE, FALSE, None)

\* paragraph.rs 172-179: FormattedSegment { anchor: Some(name), ..Default::default() }
AnchorSegment(name) ==
    FormattedSegment(<<>>, FALSE, FALSE, FALSE, FALSE, FALSE, FALSE, Some(name))

\* paragraph.rs 378-385: the comparison merge_segments makes.
SameFormatting_but_anchor(last, seg) ==
    /\ last.is_bold = seg.is_bold
    /\ last.is_italic = seg.is_italic
    /\ last.has_underline = seg.has_underline
    /\ last.has_strike = seg.has_strike
    /\ last.is_insertion = seg.is_insertion
    /\ last.is_deletion = seg.is_deletion
SameFormatting(last, seg) ==
    /\ last.is_bold = seg.is_bold
    /\ last.is_italic = seg.is_italic
    /\ last.has_underline = seg.has_underline
    /\ last.has_strike = seg.has_strike
    /\ last.is_insertion = seg.is_insertion
    /\ last.is_deletion = seg.is_deletion
    /\ last.anchor = seg.anchor

\* paragraph.rs 374-393: the loop of merge_segments.
RECURSIVE MergeInto(_, _)
MergeInto(merged_segs, segs) ==
    IF segs = <<>> THEN merged_segs
    ELSE LET seg == Head(segs)
             n == Len(merged_segs)
         IN IF n > 0 /\ SameFormatting(merged_segs[n], seg)
            THEN MergeInto(SubSeq(merged_segs, 1, n - 1)
                               \o <<[merged_segs[n] EXCEPT !.text = @ \o seg.text]>>,
                           Tail(segs))
            ELSE MergeInto(Append(merged_segs, seg), Tail(segs))

\* paragraph.rs 370-393
merge_segments(segs) == MergeInto(<<>>, segs)

RECURSIVE LeadingWs(_)
LeadingWs(s) ==
    IF s # <<>> /\ is_whitespace(s[1]) /\ s[1] # "\n" THEN <<s[1]>> \o LeadingWs(Tail(s))
    ELSE <<>>

RECURSIVE TrailingWs(_)
TrailingWs(s) ==
    IF s # <<>> /\ is_whitespace(s[Len(s)]) /\ s[Len(s)] # "\n"
    THEN TrailingWs(SubSeq(s, 1, Len(s) - 1)) \o <<s[Len(s)]>>
    ELSE <<>>

\* paragraph.rs 404-462, for text that holds no line break.
apply_format_safely(text, open, close) ==
    IF trim(text) = <<>> THEN text
    ELSE LET leading_ws == LeadingWs(text)
             trailing_ws == TrailingWs(text)
             content == SubSeq(text, Len(leading_ws) + 1, Len(text) - Len(trailing_ws))
         IN leading_ws \o open \o trim(content) \o close \o trailing_ws

Tag(name) == <<"<">> \o name \o <<">">>
EndTag(name) == <<"<", "/">> \o name \o <<">">>
STRONG == <<"s", "t", "r", "o", "n", "g">>
EM == <<"e", "m">>
INS == <<"i", "n", "s">>
TILDES == <<"~", "~">>

\* format!("<a id=\"{}\"></a>", name)
AnchorTag(name) ==
    <<"<", "a", " ", "i", "d", "=", "\"">> \o name \o <<"\"", ">", "<", "/", "a", ">">>

\* ConvertOptions::default (lib.rs 43-51)
html_underline_enabled == TRUE
html_strikethrough_enabled == FALSE
preserve_whitespace == FALSE

\* paragraph.rs 472-507: what segments_to_markdown appends for one segment.
SegmentMarkdown_emphasis_innermost(seg) ==
    LET t0 == IF seg.is_bold /\ seg.is_italic
              THEN Tag(STRONG) \o Tag(EM) \o seg.text \o EndTag(EM) \o EndTag(STRONG)
              ELSE IF seg.is_bold THEN Tag(STRONG) \o seg.text \o EndTag(STRONG)
              ELSE IF seg.is_italic THEN Tag(EM) \o seg.text \o EndTag(EM)
              ELSE seg.text
        t1 == IF seg.is_deletion THEN apply_format_safely(t0, TILDES, TILDES) ELSE t0
        t2 == IF seg.is_insertion THEN Tag(INS) \o t1 \o EndTag(INS) ELSE t1
        t3 == IF seg.has_underline /\ html_underline_enabled /\ ~seg.is_insertion
              THEN Tag(<<"u">>) \o t2 \o EndTag(<<"u">>) ELSE t2
        t4 == IF seg.has_strike /\ ~seg.is_deletion
              THEN IF html_strikethrough_enabled THEN Tag(<<"s">>) \o t3 \o EndTag(<<"s">>)
                   ELSE apply_format_safely(t3, TILDES, TILDES)
              ELSE t3
    IN (IF seg.anchor # None THEN AnchorTag(Unwrap(seg.anchor)) ELSE <<>>) \o t4
SegmentMarkdown(seg) ==
    LET t0 == seg.text
        t1 == IF seg.is_deletion THEN apply_format_safely(t0, TILDES, TILDES) ELSE t0
        t2 == IF seg.is_insertion THEN Tag(INS) \o t1 \o EndTag(INS) ELSE t1
        t3 == IF seg.has_underline /\ html_underline_enabled /\ ~seg.is_insertion
              THEN Tag(<<"u">>) \o t2 \o EndTag(<<"u">>) ELSE t2
        t4 == IF seg.has_strike /\ ~seg.is_deletion
              THEN IF html_strikethrough_enabled THEN Tag(<<"s">>) \o t3 \o EndTag(<<"s">>)
                   ELSE apply_format_safely(t3, TILDES, TILDES)
              ELSE t3
        t5 == IF seg.is_bold /\ seg.is_italic
              THEN Tag(STRONG) \o Tag(EM) \o t4 \o EndTag(EM) \o EndTag(STRONG)
              ELSE IF seg.is_bold THEN Tag(STRONG) \o t4 \o EndTag(STRONG)
              ELSE IF seg.is_italic THEN Tag(EM) \o t4 \o EndTag(EM)
              ELSE t4
    IN (IF seg.anchor # None THEN AnchorTag(Unwrap(seg.anchor)) ELSE <<>>) \o t5

\* paragraph.rs 465-510
RECURSIVE segments_to_markdown(_)
segments_to_markdown(segs) ==
    IF segs = <<>> THEN <<>>
    ELSE SegmentMarkdown(segs[1]) \o segments_to_markdown(Tail(segs))

\* paragraph.rs 92: a segment the hoisting loop takes for a leading anchor.
IsZeroWidthAnchor_any_anchor(seg) == seg.anchor # None
IsZeroWidthAnchor(seg) == seg.text = <<>> /\ seg.anchor # None

\* paragraph.rs 91-101: how many segments the loop hoists before
\* looking_for_anchors turns false.
RECURSIVE LeadingCount(_)
LeadingCount(segs) ==
    IF segs # <<>> /\ IsZeroWidthAnchor(segs[1]) THEN 1 + LeadingCount(Tail(segs)) ELSE 0

\* paragraph.rs 93-96: the tag pushed for a hoisted anchor.
LeadingAnchorTag(seg) == AnchorTag(escape_html_attr(Unwrap(seg.anchor)))

RECURSIVE LeadingTags(_, _)
LeadingTags(segs, n) ==
    IF n = 0 THEN <<>> ELSE <<LeadingAnchorTag(segs[1])>> \o LeadingTags(Tail(segs), n - 1)

\* paragraph.rs 87-101: leading_anchors and content_segments of a merged list.
leading_anchors(merged_segs) == LeadingTags(merged_segs, LeadingCount(merged_segs))
content_segments(merged_segs) ==
    SubSeq(merged_segs, LeadingCount(merged_segs) + 1, Len(merged_segs))

\* paragraph.rs 104-106: text and anchor_tags of the paragraph.
ParagraphText(segs) == segments_to_markdown(content_segments(merge_segments(segs)))
anchor_tags(segs) == Flatten(leading_anchors(merge_segments(segs)))

\* paragraph.rs 108-112
is_effectively_empty(segs) ==
    IF preserve_whitespace THEN ParagraphText(segs) = <<>>
    ELSE trim(ParagraphText(segs)) = <<>>

RECURSIVE Repeat(_, _)
Repeat(s, n) == IF n <= 0 THEN <<>> ELSE s \o Repeat(s, n - 1)

\* What a paragraph's resolved properties say: heading is the level
\* parse_heading_style gives for the style (0: not a heading), numbering is
\* None or Some([num_id, ilvl]), jc the justification.
ParagraphFormat(heading, numbering, jc) ==
    [heading |-> heading, numbering |-> numbering, jc |-> jc]

PlainParagraph == ParagraphFormat(0, None, "none")

\* paragraph.rs 537-571: the prefix built from the heading level and the list
\* marker next_list_marker returned, indent_level being list_indent_level's result.
ParagraphPrefix(fmt, marker, indent_level) ==
    LET h == IF fmt.heading > 0 THEN Repeat(<<"#">>, fmt.heading) \o <<" ">> ELSE <<>>
        l == IF fmt.numbering = None THEN <<>>
             ELSE IF fmt.heading > 0
                  THEN marker \o (IF marker # <<>> THEN <<" ">> ELSE <<>>)
                  ELSE Repeat(<<" ", " ">>, indent_level) \o marker \o <<" ">>
    IN h \o l

DivOpen(align) ==
    <<"<", "d", "i", "v", " ", "s", "t", "y", "l", "e", "=", "\"",
      "t", "e", "x", "t", "-", "a", "l", "i", "g", "n", ":", " ">> \o align \o <<";", "\"", ">">>
CENTER == <<"c", "e", "n", "t", "e", "r">>
RIGHT == <<"r", "i", "g", "h", "t">>

\* paragraph.rs 521-596
apply_paragraph_formatting(fmt, text, marker, indent_level) ==
    IF fmt.heading > 0 /\ trim(text) = <<>> THEN <<>>
    ELSE LET text_for_output == IF preserve_whitespace THEN text ELSE trim(text)
             final_text == ParagraphPrefix(fmt, marker, indent_level) \o text_for_output
         IN IF fmt.heading = 0 /\ fmt.jc = "center"
            THEN DivOpen(CENTER) \o final_text \o EndTag(<<"d", "i", "v">>)
            ELSE IF fmt.heading = 0 /\ fmt.jc = "right"
            THEN DivOpen(RIGHT) \o final_text \o EndTag(<<"d", "i", "v">>)
            ELSE final_text

\* paragraph.rs 122-129: where the hoisted tags go.
PlaceAnchors_after(tags, formatted_text) == formatted_text \o <<"\n">> \o tags
PlaceAnchors(tags, formatted_text) == tags \o <<"\n">> \o formatted_text

\* paragraph.rs 76-130: what ParagraphConverter::convert returns for the
\* collected segments; marker and indent_level are what the numbering resolver
\* returned when the paragraph is a list item.
convert(segs, fmt, marker, indent_level) ==
    IF is_effectively_empty(segs) THEN anchor_tags(segs)
    ELSE LET formatted_text ==
                 apply_paragraph_formatting(fmt, ParagraphText(segs), marker, indent_level)
         IN IF anchor_tags(segs) # <<>> THEN PlaceAnchors(anchor_tags(segs), formatted_text)
            ELSE formatted_text

\* Run content items.
Text(t) == [item |-> "Text", text |-> t, ty |-> "", kind |-> "", id |-> 0]
FieldChar(ty) == [item |-> "FieldChar", text |-> <<>>, ty |-> ty, kind |-> "", id |-> 0]
InstrText == [item |-> "InstrText", text |-> <<>>, ty |-> "", kind |-> "", id |-> 0]
Reference(kind, id) == [item |-> "Reference", text |-> <<>>, ty |-> "", kind |-> kind, id |-> id]

\* paragraph.rs 44-58: what a field character does to the field stack.
FieldStackAfter_separate_opens_a_field(stack, ty) ==
    CASE ty = "begin" -> Append(stack, "Instruction")
      [] ty = "separate" ->
            IF stack # <<>> THEN SubSeq(stack, 1, Len(stack) - 1) \o <<"Result">>
            ELSE <<"Instruction">>
      [] ty = "end" -> IF stack # <<>> THEN SubSeq(stack, 1, Len(stack) - 1) ELSE stack
      [] OTHER -> stack
FieldStackAfter(stack, ty) ==
    CASE ty = "begin" -> Append(stack, "Instruction")
      [] ty = "separate" ->
            IF stack # <<>> THEN SubSeq(stack, 1, Len(stack) - 1) \o <<"Result">> ELSE stack
      [] ty = "end" -> IF stack # <<>> THEN SubSeq(stack, 1, Len(stack) - 1) ELSE stack
      [] OTHER -> stack

\* paragraph.rs 66: `field_stack.last() != Some(&FieldPhase::Instruction)`
FieldVisible_when_no_field_open(stack) == stack = <<>>
FieldVisible(stack) == stack = <<>> \/ stack[Len(stack)] # "Instruction"

\* paragraph.rs 34-73: the kept content and the field stack afterwards.
RECURSIVE filter_run_by_field_state(_, _)
filter_run_by_field_state(content, stack) ==
    IF content = <<>> THEN [content |-> <<>>, field_stack |-> stack]
    ELSE LET c == Head(content)
             stack1 == IF c.item = "FieldChar" THEN FieldStackAfter(stack, c.ty) ELSE stack
             rest == filter_run_by_field_state(Tail(content), stack1)
             kept == c.item \notin {"FieldChar", "InstrText"} /\ FieldVisible(stack)
         IN [content |-> (IF kept THEN <<c>> ELSE <<>>) \o rest.content,
             field_stack |-> rest.field_stack]

\* paragraph.rs 237-299: the text of a run that holds no reference.
RECURSIVE extract_text(_)
extract_text(content) ==
    IF content = <<>> THEN <<>>
    ELSE (IF content[1].item = "Text" THEN content[1].text ELSE <<>>)
             \o extract_text(Tail(content))

\* The resolved character properties run_to_segment reads.
RunProps(bold, italic, underline, strike) ==
    [bold |-> bold, italic |-> italic, underline |-> underline, strike |-> strike]
NoProps == RunProps(FALSE, FALSE, FALSE, FALSE)

\* paragraph.rs 301-367, for text that holds no page break.
run_to_segment(text, props) ==
    IF text = <<>> THEN <<>>
    ELSE << FormattedSegment(text, props.bold, props.italic, props.underline, props.strike,
                             FALSE, FALSE, None) >>

\* DocumentAst::default and the converter before the first body item.
DocumentNew ==
    /\ body = <<>>
    /\ blocks = <<>>
    /\ dpc = "body"
    /\ para = [fmt |-> PlainParagraph, content |-> <<>>]
    /\ field_stack = <<>>
    /\ segments = <<>>
    /\ markdown = <<>>

DocumentQuiet ==
    /\ body = <<>>
    /\ blocks = <<>>
    /\ dpc = "none"
    /\ para = [fmt |-> PlainParagraph, content |-> <<>>]
    /\ field_stack = <<>>
    /\ segments = <<>>
    /\ markdown = <<>>

\* The record the history keeps of a paragraph child.
Child(kind, content, props, name) ==
    [child |-> kind, content |-> content, props |-> props, name |-> name]

\* extractor.rs 33 and paragraph.rs 137-138: ParagraphConverter::convert is
\* entered for the next body paragraph; collect_segments starts with no
\* segment and an empty field stack.
BeginParagraph(fmt) ==
    /\ dpc = "body"
    /\ Len(body) < MaxBlocks
    /\ dpc' = "paragraph"
    /\ para' = [fmt |-> fmt, content |-> <<>>]
    /\ field_stack' = <<>>
    /\ segments' = <<>>
    /\ UNCHANGED <<body, blocks, markdown>>
    /\ UNCHANGED notDocument

\* paragraph.rs 148-161: a run that holds no reference.
ConvertRun(content, props) ==
    /\ dpc = "paragraph"
    /\ Len(para.content) < MaxChildren
    /\ LET filtered_run == filter_run_by_field_state(content, field_stack)
           text == extract_text(filtered_run.content)
       IN /\ field_stack' = filtered_run.field_stack
          /\ segments' = IF filtered_run.content = <<>> THEN segments
                         ELSE segments \o run_to_segment(text, props)
    /\ para' = [para EXCEPT !.content = Append(@, Child("Run", content, props, <<>>))]
    /\ UNCHANGED <<body, blocks, dpc, markdown>>
    /\ UNCHANGED notDocument

\* The register call made for a reference of the given kind.
Register(kind, id) ==
    IF kind = "footnote" THEN register_footnote_reference(id)
    ELSE IF kind = "endnote" THEN register_endnote_reference(id)
    ELSE register_comment_reference(DecStr(id))

RefKinds == {"footnote", "endnote", "comment"}

\* paragraph.rs 148-161 with extract_text 270-296: a run whose content is one
\* reference; the marker the registry returns is the text of the run.
ConvertReferenceRun(kind, id) ==
    /\ dpc = "paragraph"
    /\ Len(para.content) < MaxChildren
    /\ IF FieldVisible(field_stack)
       THEN /\ Register(kind, id)
            /\ segments' = segments \o run_to_segment(TextOf(calls'[Len(calls')][3]), NoProps)
       ELSE UNCHANGED <<regVars, notRegistry, segments>>
    /\ para' = [para EXCEPT !.content =
                   Append(@, Child("Run", <<Reference(kind, id)>>, NoProps, <<>>))]
    /\ UNCHANGED <<body, blocks, dpc, field_stack, markdown>>

\* paragraph.rs 641-646: the markdown of a link with text.
LinkMarkdown_unescaped(link_text, url) ==
    <<"[">> \o link_text \o <<"]", "(">> \o escape_markdown_link_destination(url) \o <<")">>
LinkMarkdown(link_text, url) ==
    <<"[">> \o escape_markdown_link_text(link_text) \o <<"]", "(">>
            \o escape_markdown_link_destination(url) \o <<")">>

\* paragraph.rs 163-172 with convert_hyperlink 607-648 and RunConverter::convert
\* (run.rs 59-82): a hyperlink without anchor or relationship id whose only
\* run holds one reference.
ConvertHyperlink(kind, id) ==
    /\ dpc = "paragraph"
    /\ Len(para.content) < MaxChildren
    /\ Register(kind, id)
    /\ LET link_text == TextOf(calls'[Len(calls')][3])
       IN segments' = Append(segments, PlainSegment(LinkMarkdown(link_text, <<"#">>)))
    /\ para' = [para EXCEPT !.content =
                   Append(@, Child("Link", <<Reference(kind, id)>>, NoProps, <<>>))]
    /\ UNCHANGED <<body, blocks, dpc, field_stack, markdown>>

\* paragraph.rs 173-180
ConvertBookmarkStart(name) ==
    /\ dpc = "paragraph"
    /\ Len(para.content) < MaxChildren
    /\ segments' = Append(segments, AnchorSegment(name))
    /\ para' = [para EXCEPT !.content = Append(@, Child("BookmarkStart", <<>>, NoProps, name))]
    /\ UNCHANGED <<body, blocks, dpc, field_stack, markdown>>
    /\ UNCHANGED notDocument

\* paragraph.rs 192-204: a tracked insertion of one run of text; the run is
\* read by extract_text as it is, without filter_run_by_field_state.
ConvertInsertion(t) ==
    /\ dpc = "paragraph"
    /\ Len(para.content) < MaxChildren
    /\ LET segs == run_to_segment(extract_text(<<Text(t)>>), NoProps)
       IN segments' = segments \o [i \in 1..Len(segs) |-> [segs[i] EXCEPT !.is_insertion = TRUE]]
    /\ para' = [para EXCEPT !.content = Append(@, Child("Insertion", <<Text(t)>>, NoProps, <<>>))]
    /\ UNCHANGED <<body, blocks, dpc, field_stack, markdown>>
    /\ UNCHANGED notDocument

\* A piece of deleted text (w:delText).
DelText(t) == [item |-> "DelText", text |-> t, ty |-> "", kind |-> "", id |-> 0]

\* paragraph.rs 224-234: the deleted text of the runs of a deletion.
RECURSIVE extract_deleted_text(_)
extract_deleted_text(content) ==
    IF content = <<>> THEN <<>>
    ELSE (IF content[1].item = "DelText" THEN content[1].text ELSE <<>>)
             \o extract_deleted_text(Tail(content))

\* paragraph.rs 205-216: a tracked deletion of one run of deleted text.
ConvertDeletion(t) ==
    /\ dpc = "paragraph"
    /\ Len(para.content) < MaxChildren
    /\ LET text == extract_deleted_text(<<DelText(t)>>)
       IN segments' = IF text # <<>>
                      THEN Append(segments, [PlainSegment(text) EXCEPT !.is_deletion = TRUE])
                      ELSE segments
    /\ para' = [para EXCEPT !.content = Append(@, Child("Deletion", <<DelText(t)>>, NoProps, <<>>))]
    /\ UNCHANGED <<body, blocks, dpc, field_stack, markdown>>
    /\ UNCHANGED notDocument

\* core/ast.rs: BlockNode::{Paragraph, TableHtml, RawHtml}(String)
BlockNode(kind, text) == [kind |-> kind, text |-> text]

\* extractor.rs 34-36: `output.blocks.push(..)`
PushBlock_in_front(list, block) == <<block>> \o list
PushBlock(list, block) == Append(list, block)

\* extractor.rs 33-37: the converted paragraph becomes a block unless it is
\* empty; the history keeps the body item with what it was converted to.
EmitParagraph(converted) ==
    /\ blocks' = IF converted # <<>> THEN PushBlock(blocks, BlockNode("Paragraph", converted))
                 ELSE blocks
    /\ body' = Append(body, [kind |-> "Paragraph", fmt |-> para.fmt,
                             content |-> para.content, converted |-> converted])
    /\ dpc' = "body"
    /\ UNCHANGED <<para, field_stack, segments, markdown>>

\* paragraph.rs 81-129 and extractor.rs 33-37: the children are exhausted.
\* apply_paragraph_formatting asks the numbering resolver for the marker and
\* the indentation of a list item (paragraph.rs 554-566).
EndParagraph ==
    /\ dpc = "paragraph"
    /\ IF ~is_effectively_empty(segments) /\ para.fmt.numbering # None
       THEN LET n == Unwrap(para.fmt.numbering)
            IN /\ next_marker(n.num_id, n.ilvl)
               /\ EmitParagraph(convert(segments, para.fmt, ncalls'[Len(ncalls')].marker,
                                        get_indent(n.num_id, n.ilvl)))
       ELSE /\ UNCHANGED <<numVars, notNumbering>>
            /\ EmitParagraph(convert(segments, para.fmt, <<>>, 0))

\* extractor.rs 49-56: a bookmark between the paragraphs of the body.
ExtractBookmarkStart(name) ==
    /\ dpc = "body"
    /\ Len(body) < MaxBlocks
    /\ blocks' = PushBlock(blocks, BlockNode("RawHtml", AnchorTag(escape_html_attr(name))))
    /\ body' = Append(body, [kind |-> "BookmarkStart", fmt |-> PlainParagraph,
                             content |-> <<>>,
                             converted |-> AnchorTag(escape_html_attr(name))])
    /\ UNCHANGED <<dpc, para, field_stack, segments, markdown>>
    /\ UNCHANGED notDocument

\* markdown.rs 12-23
RECURSIVE RenderBlocks(_)
RenderBlocks(bs) ==
    IF bs = <<>> THEN <<>>
    ELSE (IF bs[1].text = <<>> THEN <<>> ELSE bs[1].text \o <<"\n", "\n">>)
             \o RenderBlocks(Tail(bs))

\* markdown.rs 28-33: the definition lines of a note list, from entry i on.
RECURSIVE NoteLines(_, _, _)
NoteLines(label, notes, i) ==
    IF i > Len(notes) THEN <<>>
    ELSE label \o DecChars(i) \o <<"]", ":", " ">> \o TextOf(notes[i]) \o <<"\n">>
             \o NoteLines(label, notes, i + 1)

\* markdown.rs 34-36: a comment's line carries the identifier of its entry.
CommentLabel_by_position(cs, i) == DecChars(i)
CommentLabel(cs, i) == TextOf(cs[i][1])

RECURSIVE CommentLines(_, _)
CommentLines(cs, i) ==
    IF i > Len(cs) THEN <<>>
    ELSE <<"[", "^", "c">> \o CommentLabel(cs, i) \o <<"]", ":", " ">>
             \o TextOf(cs[i][2]) \o <<"\n">> \o CommentLines(cs, i + 1)

\* markdown.rs 9-40
render(document) ==
    LET refs == document.references
    IN RenderBlocks(document.blocks)
       \o (IF refs.footnotes # <<>> \/ refs.endnotes # <<>> \/ refs.comments # <<>>
           THEN <<"-", "-", "-", "\n", "\n">>
                    \o NoteLines(<<"[", "^">>, refs.footnotes, 1)
                    \o NoteLines(<<"[", "^", "e", "n">>, refs.endnotes, 1)
                    \o CommentLines(refs.comments, 1)
           ELSE <<>>)

\* mod.rs 169-181: the extraction is over; the definitions are collected, the
\* strict check made and the document rendered.
RenderDocument ==
    /\ dpc = "body"
    /\ ConvertFinish
    /\ dpc' = "rendered"
    /\ markdown' = IF StrictFailure(missing_references) THEN <<>>
                   ELSE render([blocks |-> blocks, references |-> reference_definitions])
    /\ UNCHANGED <<body, blocks, para, field_stack, segments>>

\* A document whose paragraphs hold text runs, reference runs and hyperlinks.
NextDocument ==
    \/ BeginParagraph(PlainParagraph)
    \/ Len(para.content) < MaxDocChildren /\ ConvertRun(<<Text(<<"t">>)>>, NoProps)
    \/ \E kind \in RefKinds, id \in NoteIds :
          Len(para.content) < MaxDocChildren /\ ConvertReferenceRun(kind, id)
    \/ \E kind \in RefKinds, id \in NoteIds :
          Len(para.content) < MaxDocChildren /\ ConvertHyperlink(kind, id)
    \/ EndParagraph
    \/ ExtractBookmarkStart(<<"a">>)
    \/ RenderDocument

\* A table of the body is open: TableConverter::convert has been entered for
\* the last body item and is building its grid.
OpenTable == body # <<>> /\ body[Len(body)].kind = "Table" /\ gpc = "build"

\* extractor.rs 39-40 and table.rs 28-30: TableConverter::convert is entered
\* for the next body item, a table; the grid starts empty.
BeginTable ==
    /\ dpc = "body"
    /\ Len(body) < MaxBlocks
    /\ dpc' = "table"
    /\ body' = Append(body, [kind |-> "Table", fmt |-> PlainParagraph,
                             content |-> <<>>, converted |-> <<>>])
    /\ impl' = "table"
    /\ table' = <<>>
    /\ grid' = <<>>
    /\ col_idx' = 0
    /\ gpc' = "build"
    /\ html' = <<>>
    /\ renders' = <<>>
    /\ UNCHANGED <<blocks, para, field_stack, segments, markdown>>
    /\ UNCHANGED <<styleVars, regVars, numVars, convVars>>

\* The history a table keeps of a cell whose content was converted: its row,
\* its place among the items of the row, its paragraph and the result.
CellRecord(row, k, content, converted) ==
    [row |-> row, k |-> k, content |-> content, converted |-> converted]

\* table.rs 77-79: convert_cell_content has returned the content of the cell
\* that comes next in the current row, and the cell is not in the grid yet.
CellContentReady ==
    /\ dpc = "table"
    /\ table # <<>>
    /\ LET cs == body[Len(body)].content
       IN /\ cs # <<>>
          /\ cs[Len(cs)].row = row_idx
          /\ cs[Len(cs)].k = Len(table[Len(table)]) + 1

\* table.rs 77-79 and 219-224: convert_cell_content enters
\* ParagraphConverter::convert for the paragraph of a cell that is not a
\* continuation.
BeginCellParagraph ==
    /\ dpc = "table"
    /\ gpc = "build"
    /\ table # <<>>
    /\ ~CellContentReady
    /\ RowWidth(table[Len(table)]) + 1 <= MaxCols
    /\ dpc' = "paragraph"
    /\ para' = [fmt |-> PlainParagraph, content |-> <<>>]
    /\ field_stack' = <<>>
    /\ segments' = <<>>
    /\ UNCHANGED <<body, blocks, markdown>>
    /\ UNCHANGED notDocument

\* table.rs 224-231: the paragraph of the cell is converted; its text is the
\* content of the cell.
EndCellParagraph ==
    /\ dpc = "paragraph"
    /\ OpenTable
    /\ dpc' = "table"
    /\ body' = [body EXCEPT ![Len(body)].content =
                    Append(@, CellRecord(row_idx, Len(table[Len(table)]) + 1, para.content,
                                         convert(segments, para.fmt, <<>>, 0)))]
    /\ UNCHANGED <<blocks, para, field_stack, segments, markdown>>
    /\ UNCHANGED notDocument

\* extractor.rs 40-41: TableConverter::convert has returned; the table is
\* pushed as a block.
EmitTable ==
    /\ dpc = "table"
    /\ gpc = "done"
    /\ blocks' = PushBlock(blocks, BlockNode("TableHtml", html))
    /\ body' = [body EXCEPT ![Len(body)].converted = html]
    /\ dpc' = "body"
    /\ UNCHANGED <<para, field_stack, segments, markdown>>
    /\ UNCHANGED notDocument

\* Bound: number of cells of a table of a whole document.
MaxCells == 3
\* Bound: number of children of the paragraph of a cell.
MaxCellChildren == 1

RECURSIVE CellCount(_)
CellCount(t) == IF t = <<>> THEN 0 ELSE Len(t[1]) + CellCount(Tail(t))

ChildrenAllowed == IF OpenTable THEN MaxCellChildren ELSE MaxDocChildren

\* The kinds of reference that carry a display index.
IndexedKinds == {"footnote", "endnote"}

\* A document whose body holds paragraphs, bookmarks and one table; the
\* paragraphs of the body and of the cells hold reference runs.
NextOrder ==
    \/ BeginParagraph(PlainParagraph)
    \/ \E kind \in IndexedKinds, id \in NoteIds :
          Len(para.content) < ChildrenAllowed /\ ConvertReferenceRun(kind, id)
    \/ ~OpenTable /\ EndParagraph
    \/ ExtractBookmarkStart(<<"a">>)
    \/ (\A i \in 1..Len(body) : body[i].kind # "Table") /\ BeginTable
    \/ dpc = "table" /\ ~CellContentReady /\ BeginRow
    \/ CellCount(table) < MaxCells /\ BeginCellParagraph
    \/ EndCellParagraph
    \/ CellContentReady /\ ProcessCell(1, "absent")
    \/ dpc = "table" /\ ~CellContentReady /\ CellCount(table) < MaxCells
          /\ ProcessCell(1, "continue")
    \/ dpc = "table" /\ ~CellContentReady /\ FinishTable
    \/ EmitTable

(***************************************************************************)
(* DocxToMarkdown: several conversions run from one converter (mod.rs)     *)
(***************************************************************************)

\* Bound: number of body items of a document converted here.
MaxItems == 2

\* The calls of convert made on the converter.
ConversionIds == 1..2

\* mod.rs 153-167: `let mut numbering_resolver`, `let mut context` are locals
\* of convert_inner, so each call has a state of its own; the converter
\* itself holds the options, the extractor and the renderer (mod.rs 35-39).
StateOf_the_converter(c) == 1
StateOf(c) == c

\* The body items of the documents: an item of level 0 of list 1 or 2 (two
\* instances of one abstract list) and a paragraph with a footnote reference.
ListItem(num_id, ilvl) == [kind |-> "list", num_id |-> num_id, ilvl |-> ilvl, id |-> 0]
NoteItem(id) == [kind |-> "note", num_id |-> 0, ilvl |-> 0, id |-> id]
BodyItems == {ListItem(1, 0), ListItem(2, 0), NoteItem(1), NoteItem(2)}

RECURSIVE SeqsUpTo(_, _)
SeqsUpTo(S, n) ==
    IF n = 0 THEN {<<>>}
    ELSE LET shorter == SeqsUpTo(S, n - 1)
         IN shorter \cup {Append(d, x) : d \in {q \in shorter : Len(q) = n - 1}, x \in S}

Documents == SeqsUpTo(BodyItems, MaxItems) \ {<<>>}

\* NumberingResolver::new and ConversionContext::new (numbering.rs 104-111,
\* context.rs 37-117): no counters, empty lists and caches.
LocalsNew ==
    [counters |-> EmptyMap, footnotes |-> <<>>, footnote_index_by_id |-> EmptyMap,
     missing_references |-> <<>>]

\* numbering.rs 130-209 on the counters of one conversion: the counters after
\* the call and the marker returned.
MarkerIn(l, num_id, ilvl) ==
    IF num_id \notin DOMAIN num_instances THEN [locals |-> l, text |-> UnresolvedMarker]
    ELSE LET abs_id == num_instances[num_id] IN
         IF abs_id \notin DOMAIN abstract_nums THEN [locals |-> l, text |-> UnresolvedMarker]
         ELSE LET levels == abstract_nums[abs_id]
                  key == CounterKey(num_id, abs_id)
                  entry == IF key \in DOMAIN l.counters THEN l.counters[key]
                           ELSE Grow(<<>>, CounterSlots, 0)
                  level_def == FindLevel(levels, ilvl)
              IN IF level_def = None
                 THEN [locals |-> [l EXCEPT !.counters = (key :> entry) @@ l.counters],
                       text |-> <<"-">>]
                 ELSE LET level == Unwrap(level_def)
                          cs == ResetDeeper(AdvanceLevel(Resized(entry, ilvl),
                                                         num_id, ilvl, level), ilvl)
                      IN [locals |-> [l EXCEPT !.counters = (key :> cs) @@ l.counters],
                          text |-> MarkerText(cs, levels, level, ilvl)]

\* context.rs 134-153 on the registry of one conversion: the registry after
\* the call and the marker returned.
FootnoteIn(l, id) ==
    IF id \in DOMAIN l.footnote_index_by_id
    THEN [locals |-> l, text |-> <<footnote_marker(l.footnote_index_by_id[id])>>]
    ELSE LET found == id \in DOMAIN footnote_text_by_id
             footnote_text == IF found THEN footnote_text_by_id[id] ELSE ""
             idx == IndexAfterPush(l.footnotes)
         IN [locals |->
                [l EXCEPT !.missing_references =
                              IF found THEN @ ELSE Append(@, "footnote:" \o DecStr(id)),
                          !.footnotes = Append(@, footnote_text),
                          !.footnote_index_by_id = (id :> idx) @@ @],
             text |-> <<footnote_marker(idx)>>]

\* The conversion of one body item, on the state of one conversion.
ItemIn(l, item) ==
    IF item.kind = "list" THEN MarkerIn(l, item.num_id, item.ilvl)
    ELSE FootnoteIn(l, item.id)

\* A call of convert not made yet.  `overlapped` is history: some item of the
\* call was converted while another call was part-way through its document.
NotStarted ==
    [pc |-> "idle", doc |-> <<>>, pos |-> 0, blocks |-> <<>>, output |-> None,
     overlapped |-> FALSE]

InProgress(c) == conversions[c].pc = "extract" /\ conversions[c].pos > 0

\* mod.rs 97-167: convert parses the document and convert_inner builds the
\* resolver and the context of this call.
BeginConversion(c, doc) ==
    /\ conversions[c].pc = "idle"
    /\ conversions' = [conversions EXCEPT ![c] = [NotStarted EXCEPT !.pc = "extract",
                                                                      !.doc = doc]]
    /\ locals' = (StateOf(c) :> LocalsNew) @@ locals
    /\ UNCHANGED <<styleVars, regVars, numVars, gridVars, docVars>>

\* mod.rs 169-171, extractor.rs 26-61: the next body item of the document of
\* conversion c is converted and its block pushed.
ExtractItem(c) ==
    /\ conversions[c].pc = "extract"
    /\ conversions[c].pos < Len(conversions[c].doc)
    /\ LET item == conversions[c].doc[conversions[c].pos + 1]
           r == ItemIn(locals[StateOf(c)], item)
       IN /\ locals' = [locals EXCEPT ![StateOf(c)] = r.locals]
          /\ conversions' = [conversions EXCEPT
                                ![c].pos = @ + 1,
                                ![c].blocks = Append(@, r.text),
                                ![c].overlapped =
                                    @ \/ \E c2 \in ConversionIds \ {c} : InProgress(c2)]
    /\ UNCHANGED <<styleVars, regVars, numVars, gridVars, docVars>>

\* mod.rs 172-181: the reference definitions are collected and the document
\* is rendered (strict validation is off).
FinishConversion(c) ==
    /\ conversions[c].pc = "extract"
    /\ conversions[c].pos = Len(conversions[c].doc)
    /\ conversions' = [conversions EXCEPT
                          ![c].pc = "done",
                          ![c].output = Some([blocks |-> conversions[c].blocks,
                                              footnotes |-> locals[StateOf(c)].footnotes])]
    /\ UNCHANGED locals
    /\ UNCHANGED <<styleVars, regVars, numVars, gridVars, docVars>>

NextConversions ==
    \/ \E c \in ConversionIds, doc \in Documents : BeginConversion(c, doc)
    \/ \E c \in ConversionIds : ExtractItem(c)
    \/ \E c \in ConversionIds : FinishConversion(c)

ConversionsNew ==
    /\ conversions = [c \in ConversionIds |-> NotStarted]
    /\ locals = EmptyMap

ConversionsQuiet == ConversionsNew

(***************************************************************************)
(* Specifications                                                          *)
(***************************************************************************)

InitStyles == StylesStart /\ ConversionsQuiet /\ RegistryQuiet /\ NumberingQuiet /\ GridQuiet /\ DocumentQuiet
SpecStyles == InitStyles /\ [][NextStyles]_vars

InitRegistry == RegistryStart /\ StylesQuiet /\ ConversionsQuiet /\ NumberingQuiet /\ GridQuiet /\ DocumentQuiet
SpecRegistry == InitRegistry /\ [][NextRegistry]_vars

\* ConversionContext through its interface, take_missing_references included
InitContext == ContextStart /\ StylesQuiet /\ ConversionsQuiet /\ NumberingQuiet /\ GridQuiet /\ DocumentQuiet
SpecContext == InitContext /\ [][NextContext]_vars

InitNumbering == NumberingStart /\ StylesQuiet /\ ConversionsQuiet /\ RegistryQuiet /\ GridQuiet /\ DocumentQuiet
SpecNumbering == InitNumbering /\ [][NextNumbering]_vars

\* The numbering part of NumberingDoc with one more abstract list, 3, that
\* declares no level at all, and its instance 6.
FrameDoc(s0, ov) ==
    LET d == NumberingDoc(s0, 3, ov)
    IN [abstracts |-> Append(d.abstracts, [abstract_num_id |-> 3, levels |-> <<>>]),
        nums |-> Append(d.nums, [num_id |-> 6, abstract_num_id |-> 3,
                                 level_overrides |-> <<>>])]

\* The list ids of the calls: the instances 1, 2, 3 and 6, and 5, which has
\* no instance.
FrameIds == {1, 2, 3, 5, 6}

NextFrame ==
    \/ \E num_id \in FrameIds, ilvl \in Levels : next_marker(num_id, ilvl) /\ UNCHANGED docVars
    \/ \E num_id \in FrameIds, ilvl \in Levels : GetIndent(num_id, ilvl) /\ UNCHANGED docVars

\* NumberingResolver on a numbering part that holds every kind of list id: two
\* instances of one list, an "Article" list, an instance without abstract
\* list, an id without instance and a list without levels
InitFrame ==
    /\ \E s0 \in {0, 3} :
          LET d == FrameDoc(s0, << [i_level |-> 0, start_override |-> 5] >>) IN NumberingNew(d.abstracts, d.nums)
    /\ StylesQuiet /\ ConversionsQuiet /\ RegistryQuiet /\ GridQuiet /\ DocumentQuiet
SpecFrame == InitFrame /\ [][NextFrame]_vars

\* The orders in which an abstract list may declare its levels 0, 1 and 2.
LevelOrders ==
    {<<0, 1, 2>>, <<0, 2, 1>>, <<1, 0, 2>>, <<1, 2, 0>>, <<2, 0, 1>>, <<2, 1, 0>>}

\* A level whose template is the "Article" pattern when article holds, and
\* "%n." otherwise.
ShiftLevel(ilvl, article) ==
    LevelDef(ilvl, 1, "decimal",
             IF article THEN Some(<<JE, "%">> \o DecChars(ilvl + 1) \o <<JO>>)
             ELSE Some(<<"%">> \o DecChars(ilvl + 1) \o <<".">>))

\* A numbering part whose abstract list 1 (instance 1) declares the levels in
\* the given order, the levels of arts carrying the "Article" pattern.
ShiftDoc(order, arts) ==
    [abstracts |->
        << [abstract_num_id |-> 1,
            levels |-> << ShiftLevel(order[1], order[1] \in arts),
                          ShiftLevel(order[2], order[2] \in arts),
                          ShiftLevel(order[3], order[3] \in arts) >>] >>,
     nums |-> << [num_id |-> 1, abstract_num_id |-> 1, level_overrides |-> <<>>] >>]

NextShifts ==
    \/ \E ilvl \in Levels : next_marker(1, ilvl) /\ UNCHANGED docVars
    \/ \E ilvl \in Levels : GetIndent(1, ilvl) /\ UNCHANGED docVars

\* NumberingResolver::new on lists that declare their levels in any order
InitShifts ==
    /\ \E order \in LevelOrders, arts \in SUBSET Levels :
          LET d == ShiftDoc(order, arts) IN NumberingNew(d.abstracts, d.nums)
    /\ StylesQuiet /\ ConversionsQuiet /\ RegistryQuiet /\ GridQuiet /\ DocumentQuiet
SpecShifts == InitShifts /\ [][NextShifts]_vars

\* Bounds: the start values of a list numbered in Roman numerals run from
\* -MaxNonPositive to MaxRoman.
MaxRoman == 3999
MaxNonPositive == 3

\* A numbering part whose list 1 numbers level 0 in upper-case Roman numerals
\* from the start value s, without level text: the marker is the numeral and
\* a full stop.
RomanDoc(s) ==
    [abstracts |->
        << [abstract_num_id |-> 1, levels |-> << LevelDef(0, s, "upperRoman", None) >>] >>,
     nums |-> << [num_id |-> 1, abstract_num_id |-> 1, level_overrides |-> <<>>] >>]

NextRoman ==
    \/ next_marker(1, 0) /\ UNCHANGED docVars
    \/ GetIndent(1, 0) /\ UNCHANGED docVars

\* next_marker on a list numbered in Roman numerals
InitRoman ==
    /\ \E s \in (0 - MaxNonPositive)..MaxRoman :
          LET d == RomanDoc(s) IN NumberingNew(d.abstracts, d.nums)
    /\ StylesQuiet /\ ConversionsQuiet /\ RegistryQuiet /\ GridQuiet /\ DocumentQuiet
SpecRoman == InitRoman /\ [][NextRoman]_vars

\* Bound: list levels 0..MaxTemplateLevel of the paragraphs of a document whose
\* levels carry templates.
MaxTemplateLevel == 3

\* A numbering part whose levels carry templates.  Abstract list 1 (instance 2)
\* declares level 3 alone, with the template "%4."; abstract list 2
\* (instance 1) declares the levels 0, 1 and 2, each in a number format of
\* its own, and its level 2 names the undeclared level 3 as well.
TemplateDoc(s0, s3) ==
    [abstracts |->
        << [abstract_num_id |-> 1,
            levels |-> << LevelDef(3, s3, "decimal", Some(<<"%","4",".">>)) >>],
           [abstract_num_id |-> 2,
            levels |-> << LevelDef(0, s0, "upperRoman", Some(<<"%","1",".">>)),
                          LevelDef(1, 1, "lowerLetter", Some(<<"%","1",".","%","2",")">>)),
                          LevelDef(2, 1, "decimal",
                                   Some(<<"%","1","-","%","2","-","%","3","-","%","4">>)) >>] >>,
     nums |->
        << [num_id |-> 2, abstract_num_id |-> 1, level_overrides |-> <<>>],
           [num_id |-> 1, abstract_num_id |-> 2, level_overrides |-> <<>>] >>]

TemplateIds == 1..2

TemplateStart ==
    \E s0 \in StartValues, s3 \in {0, 1} :
        LET d == TemplateDoc(s0, s3) IN NumberingNew(d.abstracts, d.nums)

NextTemplates ==
    \/ \E num_id \in TemplateIds, ilvl \in 0..MaxTemplateLevel :
          next_marker(num_id, ilvl) /\ UNCHANGED docVars
    \/ \E num_id \in TemplateIds, ilvl \in 0..MaxTemplateLevel :
          GetIndent(num_id, ilvl) /\ UNCHANGED docVars

\* next_marker and get_indent on lists whose levels carry templates
InitTemplates == TemplateStart /\ StylesQuiet /\ ConversionsQuiet /\ RegistryQuiet /\ GridQuiet /\ DocumentQuiet
SpecTemplates == InitTemplates /\ [][NextTemplates]_vars

\* build_grid of table_grid.rs
InitGrid == GridNew("table_grid") /\ StylesQuiet /\ ConversionsQuiet /\ RegistryQuiet /\ NumberingQuiet /\ DocumentQuiet
SpecGrid == InitGrid /\ [][NextGrid]_vars

\* TableConverter::convert of table.rs
InitTable == GridNew("table") /\ StylesQuiet /\ ConversionsQuiet /\ RegistryQuiet /\ NumberingQuiet /\ DocumentQuiet
SpecTable == InitTable /\ [][NextGrid]_vars

\* Bound: number of segments in a list given to merge_segments.
MaxSegments == 3
\* Bound: number of times merge_segments is applied to a list in turn.
MaxMerges == 2

WithFlag(seg, flag) == [seg EXCEPT ![flag] = TRUE]

\* Segments as collect_segments makes them: text with the flags of its run,
\* inserted or deleted text, and zero-width anchors.
SegmentChoices ==
    {PlainSegment(<<"x">>), PlainSegment(<<"y">>)}
        \cup {WithFlag(PlainSegment(<<"x">>), flag) :
                 flag \in {"is_bold", "is_italic", "has_underline", "has_strike",
                           "is_insertion", "is_deletion"}}
        \cup {WithFlag(PlainSegment(<<"y">>), "is_bold")}
        \cup {AnchorSegment(<<"a">>), AnchorSegment(<<"b">>)}

RECURSIVE SegmentLists(_)
SegmentLists(n) ==
    IF n = 0 THEN {<<>>}
    ELSE SegmentLists(n - 1)
            \cup {Append(l, seg) : l \in {m \in SegmentLists(n - 1) : Len(m) = n - 1},
                                    seg \in SegmentChoices}

\* paragraph.rs 84: merge_segments applied to the list at hand; the history
\* keeps the list given and the list returned.
MergeSegments ==
    /\ dpc = "segments"
    /\ Len(body) < MaxMerges
    /\ body' = Append(body, [kind |-> "merge_segments", input |-> segments,
                             merged |-> merge_segments(segments)])
    /\ segments' = merge_segments(segments)
    /\ UNCHANGED <<blocks, dpc, para, field_stack, markdown>>
    /\ UNCHANGED notDocument

NextMerge == MergeSegments

InitMerge ==
    /\ segments \in SegmentLists(MaxSegments)
    /\ body = <<>>
    /\ blocks = <<>>
    /\ dpc = "segments"
    /\ para = [fmt |-> PlainParagraph, content |-> <<>>]
    /\ field_stack = <<>>
    /\ markdown = <<>>
    /\ StylesQuiet /\ ConversionsQuiet /\ RegistryQuiet /\ NumberingQuiet /\ GridQuiet
SpecMerge == InitMerge /\ [][NextMerge]_vars

\* Bound: number of content items one run holds.
MaxRunItems == 2

Letter(k) == CASE k = 1 -> "a" [] k = 2 -> "b" [] k = 3 -> "c" [] OTHER -> "d"

\* What the k-th item of a run may be: a field character, instruction text, or
\* text, which is the k-th letter so that the items of a run differ.
RunItemsAt(k) ==
    {FieldChar("begin"), FieldChar("separate"), FieldChar("end"), InstrText,
     Text(<<Letter(k)>>)}

RECURSIVE RunsOfLen(_)
RunsOfLen(n) ==
    IF n = 0 THEN {<<>>}
    ELSE {Append(r, x) : r \in RunsOfLen(n - 1), x \in RunItemsAt(n)}

FieldRuns == UNION {RunsOfLen(n) : n \in 1..MaxRunItems}

\* Bound: number of content items the runs of one paragraph hold together.
MaxFieldItems == 4

\* The content items of the runs walked so far, in order.
RECURSIVE WalkedItems(_)
WalkedItems(children) ==
    IF children = <<>> THEN <<>>
    ELSE (IF children[1].child = "Run" THEN children[1].content ELSE <<>>)
             \o WalkedItems(Tail(children))

\* collect_segments walking the runs of one paragraph that holds fields.
NextFields ==
    \/ body = <<>> /\ BeginParagraph(PlainParagraph)
    \/ \E content \in FieldRuns :
          /\ Len(WalkedItems(para.content)) + Len(content) <= MaxFieldItems
          /\ ConvertRun(content, NoProps)
    \/ EndParagraph

InitFields ==
    DocumentNew /\ StylesQuiet /\ ConversionsQuiet /\ RegistryQuiet /\ NumberingQuiet /\ GridQuiet
SpecFields == InitFields /\ [][NextFields]_vars

\* The segments collect_segments makes of one piece of text: the text of a
\* run with any of its four flags, inserted or not (paragraph.rs 192-204),
\* and deleted text, which carries no other flag (205-216).
RenderTexts == {<<"x">>, <<" ", "x">>, <<"x", " ">>}
RenderSegments ==
    {FormattedSegment(t, b, i, u, st, ins, FALSE, None) :
        t \in RenderTexts, b \in BOOLEAN, i \in BOOLEAN, u \in BOOLEAN, st \in BOOLEAN,
        ins \in BOOLEAN}
    \cup {FormattedSegment(t, FALSE, FALSE, FALSE, FALSE, FALSE, TRUE, None) : t \in RenderTexts}

\* paragraph.rs 87-106: segments_to_markdown applied to the segment at hand;
\* the history keeps the segment and the text returned.
RenderSegment ==
    /\ dpc = "segments"
    /\ body = <<>>
    /\ Len(segments) = 1
    /\ body' = Append(body, [kind |-> "segments_to_markdown", input |-> segments[1],
                             text |-> segments_to_markdown(segments)])
    /\ UNCHANGED <<blocks, dpc, para, field_stack, segments, markdown>>
    /\ UNCHANGED notDocument

NextRender == RenderSegment

InitRender ==
    /\ \E seg \in RenderSegments : segments = <<seg>>
    /\ body = <<>>
    /\ blocks = <<>>
    /\ dpc = "segments"
    /\ para = [fmt |-> PlainParagraph, content |-> <<>>]
    /\ field_stack = <<>>
    /\ markdown = <<>>
    /\ StylesQuiet /\ ConversionsQuiet /\ RegistryQuiet /\ NumberingQuiet /\ GridQuiet
SpecRender == InitRender /\ [][NextRender]_vars

\* DocxToMarkdown::convert_inner on a document of paragraphs and bookmarks
InitDocument ==
    ContextStart /\ DocumentNew /\ StylesQuiet /\ ConversionsQuiet /\ NumberingQuiet /\ GridQuiet
SpecDocument == InitDocument /\ [][NextDocument]_vars

\* The paragraphs ParagraphConverter::convert is given here: a plain one, a
\* heading, a centred one and an item of level 0 of list 1.
ParagraphFormats ==
    {PlainParagraph, ParagraphFormat(1, None, "none"), ParagraphFormat(0, None, "center"),
     ParagraphFormat(0, Some([num_id |-> 1, ilvl |-> 0]), "none")}

\* Their runs hold a letter or a blank, plain or bold.
RunTexts == {<<"x">>, <<" ">>}
BoldProps == RunProps(TRUE, FALSE, FALSE, FALSE)
BookmarkNames == {<<"a">>, <<"b">>}

\* One paragraph of runs and bookmarks.
NextParagraph ==
    \/ \E fmt \in ParagraphFormats : body = <<>> /\ BeginParagraph(fmt)
    \/ \E t \in RunTexts, props \in {NoProps, BoldProps} : ConvertRun(<<Text(t)>>, props)
    \/ \E name \in BookmarkNames : ConvertBookmarkStart(name)
    \/ EndParagraph

\* ParagraphConverter::convert on one paragraph
InitParagraph ==
    /\ ContextStart /\ DocumentNew /\ StylesQuiet /\ ConversionsQuiet /\ GridQuiet
    /\ LET d == NumberingDoc(1, 3, <<>>) IN NumberingNew(d.abstracts, d.nums)
SpecParagraph == InitParagraph /\ [][NextParagraph]_vars

\* The paragraphs of an "Article" list (instance 3, whose level 1 has the
\* template JE %2 JO): items of its levels 1 and 2, plain or with a heading
\* style, and an item of the ordinary list 1.
ArticleFormats ==
    {ParagraphFormat(0, Some([num_id |-> 3, ilvl |-> 1]), "none"),
     ParagraphFormat(0, Some([num_id |-> 3, ilvl |-> 2]), "none"),
     ParagraphFormat(2, Some([num_id |-> 3, ilvl |-> 1]), "none"),
     ParagraphFormat(0, Some([num_id |-> 1, ilvl |-> 0]), "none")}

\* One paragraph of such a list, of runs and bookmarks.
NextArticles ==
    \/ \E fmt \in ArticleFormats : body = <<>> /\ BeginParagraph(fmt)
    \/ \E t \in RunTexts, props \in {NoProps, BoldProps} : ConvertRun(<<Text(t)>>, props)
    \/ ConvertBookmarkStart(<<"a">>)
    \/ EndParagraph

\* ParagraphConverter::convert on one paragraph of an "Article" list
InitArticles ==
    /\ ContextStart /\ DocumentNew /\ StylesQuiet /\ ConversionsQuiet /\ GridQuiet
    /\ LET d == NumberingDoc(1, 3, <<>>) IN NumberingNew(d.abstracts, d.nums)
SpecArticles == InitArticles /\ [][NextArticles]_vars

\* The runs of a paragraph that holds one field among other children: a field
\* character, instruction text or a letter.
PhaseRuns ==
    {<<FieldChar("begin")>>, <<FieldChar("separate")>>, <<FieldChar("end")>>,
     <<InstrText>>, <<Text(<<"x">>)>>}

\* collect_segments walking a paragraph whose children are runs, reference
\* runs, hyperlinks, bookmarks, tracked insertions and tracked deletions.
NextPhases ==
    \/ body = <<>> /\ BeginParagraph(PlainParagraph)
    \/ \E content \in PhaseRuns : ConvertRun(content, NoProps)
    \/ ConvertReferenceRun("footnote", 1)
    \/ ConvertHyperlink("footnote", 1)
    \/ ConvertBookmarkStart(<<"a">>)
    \/ ConvertInsertion(<<"x">>)
    \/ ConvertDeletion(<<"x">>)
    \/ EndParagraph

InitPhases ==
    ContextStart /\ DocumentNew /\ StylesQuiet /\ ConversionsQuiet /\ NumberingQuiet /\ GridQuiet
SpecPhases == InitPhases /\ [][NextPhases]_vars

\* Bound: children of a paragraph of a document of list paragraphs.
MaxListChildren == 1

\* The paragraphs of a document of lists: plain ones, items of level 0 of the
\* instances 1 and 2 of one abstract list, items of level 1, and a heading
\* that is an item of the list.
ListFormats ==
    {PlainParagraph,
     ParagraphFormat(0, Some([num_id |-> 1, ilvl |-> 0]), "none"),
     ParagraphFormat(0, Some([num_id |-> 2, ilvl |-> 0]), "none"),
     ParagraphFormat(0, Some([num_id |-> 1, ilvl |-> 1]), "none"),
     ParagraphFormat(1, Some([num_id |-> 1, ilvl |-> 0]), "none")}

\* Their runs hold a letter or a blank; a paragraph may hold no run at all.
NextLists ==
    \/ \E fmt \in ListFormats : BeginParagraph(fmt)
    \/ \E t \in RunTexts :
          Len(para.content) < MaxListChildren /\ ConvertRun(<<Text(t)>>, NoProps)
    \/ EndParagraph

\* DocxExtractor::extract on a body of list paragraphs, the list counting from 1
InitLists ==
    /\ RegistryNew({}, {}, {})
    /\ strict_reference_validation = FALSE
    /\ rpc = "extract"
    /\ DocumentNew /\ StylesQuiet /\ ConversionsQuiet /\ GridQuiet
    /\ LET d == NumberingDoc(1, 3, <<>>) IN NumberingNew(d.abstracts, d.nums)
SpecLists == InitLists /\ [][NextLists]_vars

\* DocxExtractor::extract on a body of paragraphs, bookmarks and tables
InitOrder ==
    /\ RegistryNew({1}, {1}, {})
    /\ strict_reference_validation = FALSE
    /\ rpc = "extract"
    /\ DocumentNew /\ StylesQuiet /\ ConversionsQuiet /\ NumberingQuiet /\ GridQuiet
SpecOrder == InitOrder /\ [][NextOrder]_vars

\* Conversions of documents that share their numbering part (list 1 counting
\* from 1) and define footnote 1, run from one converter in any interleaving
InitConversions ==
    /\ ConversionsNew
    /\ LET d == NumberingDoc(1, 3, <<>>) IN NumberingNew(d.abstracts, d.nums)
    /\ RegistryNew({1}, {}, {})
    /\ strict_reference_validation = FALSE
    /\ rpc = "done"
    /\ StylesQuiet /\ GridQuiet /\ DocumentQuiet
SpecConversions == InitConversions /\ [][NextConversions]_vars

(***************************************************************************)
(* Properties                                                              *)
(***************************************************************************)

\* C1: resolving terminates for every style table: the chain walk stops when it
\* revisits a style name, so the collected chain never holds a name twice.
C1_WalkStopsOnRevisit == Walking => NoRepeat(chain)

(***************************************************************************)
(* Vocabulary of the table claims                                          *)
(***************************************************************************)

\* Column at which item k of a row starts: the spans of the cells before it.
StartCol(items, k) == RowWidth(SubSeq(items, 1, k - 1))

IsCell(t, r, k) == t[r][k].kind = "cell"
IsContinuation(t, r, k) == IsCell(t, r, k) /\ t[r][k].continue
IsMaster(t, r, k) == IsCell(t, r, k) /\ ~t[r][k].continue

\* Row r of table t (rows counted from 1 here) has a continuation cell, or a
\* master cell, starting at column c.
ContinuationAt(t, r, c) ==
    /\ r \in 1..Len(t)
    /\ \E k \in 1..Len(t[r]) : IsContinuation(t, r, k) /\ StartCol(t[r], k) = c
MasterAt(t, r, c) ==
    /\ r \in 1..Len(t)
    /\ \E k \in 1..Len(t[r]) : IsMaster(t, r, k) /\ StartCol(t[r], k) = c

\* Every row spans the same width, and every continuation cell has, in the
\* row above, a cell of the same column and span (the master, or a
\* continuation that has one in turn).
WellFormed(t) ==
    /\ \A r1, r2 \in 1..Len(t) : RowWidth(t[r1]) = RowWidth(t[r2])
    /\ \A r \in 1..Len(t) : \A k \in 1..Len(t[r]) :
          IsContinuation(t, r, k) =>
             /\ r > 1
             /\ \E j \in 1..Len(t[r - 1]) :
                   /\ IsCell(t, r - 1, j)
                   /\ StartCol(t[r - 1], j) = StartCol(t[r], k)
                   /\ t[r - 1][j].grid_span = t[r][k].grid_span

Rectangular(g) == \A r1, r2 \in 1..Len(g) : Len(g[r1]) = Len(g[r2])
NoEmptySlot(g) == \A r \in 1..Len(g) : \A c \in 1..Len(g[r]) : g[r][c].status # "Empty"

\* The Occupied cell of slot (r, c) covers slot (r2, c2) with its spans.
Covers(g, r, c, r2, c2) ==
    /\ g[r][c].status = "Occupied"
    /\ r <= r2 /\ r2 < r + g[r][c].rowspan
    /\ c <= c2 /\ c2 < c + g[r][c].colspan
NoOverlap(g) ==
    \A r2 \in 1..Len(g) : \A c2 \in 1..Len(g[r2]) :
       Cardinality({ rc \in (1..r2) \X (1..c2) :
                       rc[2] <= Len(g[rc[1]]) /\ Covers(g, rc[1], rc[2], r2, c2) }) <= 1

\* Number of consecutive rows under row r that hold a continuation cell
\* starting at column c.
RECURSIVE ChainBelow(_, _, _)
ChainBelow(t, r, c) == IF ContinuationAt(t, r + 1, c) THEN 1 + ChainBelow(t, r + 1, c) ELSE 0

\* Row of the master cell that the chain of continuation cells of column c
\* leads to, going up from row r; 0 when there is none.
RECURSIVE MasterRowAbove(_, _, _)
MasterRowAbove(t, r, c) ==
    IF r < 1 THEN 0
    ELSE IF MasterAt(t, r, c) THEN r
    ELSE IF ContinuationAt(t, r, c) THEN MasterRowAbove(t, r - 1, c)
    ELSE 0

(***************************************************************************)
(* Properties of the table grid                                            *)
(***************************************************************************)

\* C7: for a well-formed input table, all rows of the built grid have the same
\* number of slots, no slot is Empty, and no slot is covered by two Occupied cells.
C7_WellFormedTableGivesRectangularGrid ==
    (gpc = "done" /\ WellFormed(table)) =>
        /\ Rectangular(grid)
        /\ NoEmptySlot(grid)
        /\ NoOverlap(grid)

\* A master with n >= 1 continuation rows under it ends with rowspan n + 1.
ChainRowspan ==
    gpc = "done" =>
       \A r \in 1..Len(table) : \A k \in 1..Len(table[r]) :
          IsMaster(table, r, k) =>
             LET c == StartCol(table[r], k)
                 n == ChainBelow(table, r, c)
             IN n >= 1 => /\ grid[r][c + 1].status = "Occupied"
                          /\ grid[r][c + 1].rowspan = n + 1

\* A continuation cell of a chain changes the rowspan of its master only.
ChainTouchesMasterOnly ==
    (Len(table') = Len(table) /\ table # <<>> /\ Len(table'[Len(table)]) = Len(table[Len(table)]) + 1) =>
       LET r == Len(table')
           k == Len(table'[r])
           c == StartCol(table'[r], k)
           m == MasterRowAbove(table', r - 1, c)
       IN (IsContinuation(table', r, k) /\ m # 0) =>
             \A r2 \in 1..Len(grid) : \A c2 \in 1..Len(grid[r2]) :
                (grid[r2][c2].status = "Occupied" /\ <<r2, c2>> # <<m, c + 1>>) =>
                   grid'[r2][c2].rowspan = grid[r2][c2].rowspan

\* C8: a master cell followed in its column by n >= 1 consecutive rows of
\* continuation cells ends with rowspan exactly n + 1, and those continuation
\* cells change the rowspan of no other cell.
C8_ChainRowspanIsRowsPlusOne == []ChainRowspan /\ [][ChainTouchesMasterOnly]_vars

\* C9: a continuation cell without a traceable master (in the first row, or
\* with an Empty slot or no slot above it) never makes the build fail and is
\* rendered as an empty, unspanned <td></td>.
C9_OrphanContinuationIsEmptyCell ==
    /\ gpc = "failed" => IsMaster(table, Len(table), Len(table[Len(table)]))
    /\ gpc = "done" =>
          \A r \in 1..Len(table) : \A k \in 1..Len(table[r]) :
             LET c == StartCol(table[r], k) IN
             ( /\ IsContinuation(table, r, k)
               /\ \/ r = 1
                  \/ Len(grid[r - 1]) <= c
                  \/ grid[r - 1][c + 1].status = "Empty" )
             => RenderSlot(grid[r][c + 1]) = << "    <td></td>\n" >>

(***************************************************************************)
(* Vocabulary of the numbering claims, over the history of next_marker     *)
(* calls                                                                   *)
(***************************************************************************)

\* The call reached the counters of an abstract list.
Reached(i) == ncalls[i].counter # 0 - 1
AbsOf(i) == num_instances[ncalls[i].num_id]

\* Calls i and j are made on the same abstract list.
SameList(i, j) == Reached(i) /\ Reached(j) /\ AbsOf(i) = AbsOf(j)

Greatest(S) == IF S = {} THEN 0 ELSE CHOOSE m \in S : \A x \in S : x <= m

\* Latest call on the list of call j, before j, at the level of j or a
\* shallower one / at a strictly shallower one; 0 when there is none.
LastAtOrAbove(j) ==
    Greatest({ i \in 1..(j - 1) : SameList(i, j) /\ ncalls[i].ilvl <= ncalls[j].ilvl })
LastShallower(j) ==
    Greatest({ i \in 1..(j - 1) : SameList(i, j) /\ ncalls[i].ilvl < ncalls[j].ilvl })

\* The calls at the level of call j, on its list, since the last call at a
\* shallower level, j included.
Run(j) ==
    { i \in (LastShallower(j) + 1)..j : SameList(i, j) /\ ncalls[i].ilvl = ncalls[j].ilvl }
FirstOfRun(j) == CHOOSE i \in Run(j) : \A x \in Run(j) : i <= x

\* Start value of the level definition call j uses, and the value an
\* uninitialised counter takes at call j.
LevelStart(j) == Unwrap(FindLevel(abstract_nums[AbsOf(j)], ncalls[j].ilvl)).start
InitialValue(j) ==
    IF <<ncalls[j].num_id, ncalls[j].ilvl>> \in DOMAIN overrides
    THEN overrides[<<ncalls[j].num_id, ncalls[j].ilvl>>]
    ELSE LevelStart(j)

\* The abstract list is used by two different list instances.
SharedList(a) ==
    \E n1, n2 \in DOMAIN num_instances :
        n1 # n2 /\ num_instances[n1] = a /\ num_instances[n2] = a

\* After the latest call on a list, made at level L, the counters of all
\* deeper levels of the list are 0.
DeeperCountersAreZero ==
    \A j \in 1..Len(ncalls) :
       (Reached(j) /\ \A i \in (j + 1)..Len(ncalls) : ~SameList(i, j)) =>
          \A k \in 1..Len(counters[AbsOf(j)]) :
             k > ncalls[j].ilvl + 1 => counters[AbsOf(j)][k] = 0

\* Call j is made at a level that was advanced before, then reset by a call
\* at a shallower level.
RestartsLevel(j) ==
    /\ Reached(j)
    /\ LastAtOrAbove(j) # 0
    /\ ncalls[LastAtOrAbove(j)].ilvl < ncalls[j].ilvl
    /\ \E i \in 1..(LastAtOrAbove(j) - 1) : SameList(i, j) /\ ncalls[i].ilvl = ncalls[j].ilvl

(***************************************************************************)
(* Properties of the numbering resolver                                    *)
(***************************************************************************)

C4_RestartsFromStartValue ==
    /\ DeeperCountersAreZero
    /\ \A j \in 1..Len(ncalls) : RestartsLevel(j) => ncalls[j].counter = LevelStart(j)

\* C4, amended: a call at level L zeroes the counters of the deeper levels,
\* and the next call at a deeper level that had been advanced restarts from
\* the start override the calling instance has for that level, or, without
\* one, from the start value of the level.
C4_RestartsFromInitialValue ==
    /\ DeeperCountersAreZero
    /\ \A j \in 1..Len(ncalls) : RestartsLevel(j) => ncalls[j].counter = InitialValue(j)

\* Level 1 advanced, reset by a call at level 0, and restarted: once from the
\* start value, once from the override of instance 2.
C4_Witness ==
    /\ Len(ncalls) = 3
    /\ <<ncalls[1].ilvl, ncalls[2].ilvl, ncalls[3].ilvl>> = <<1, 0, 1>>
    /\ RestartsLevel(3)
    /\ ncalls[3].counter = InitialValue(3)
    /\ ncalls[3].counter # LevelStart(3)

\* C5: whatever the start value, the first call at an (abstract list, level)
\* sets the counter to the start value, or to the override of the calling
\* instance, and each later call at the level with no call at a shallower
\* level in between raises the counter by exactly 1.
C5_FirstCallInitialisesLaterCallsAddOne ==
    \A j \in 1..Len(ncalls) : Reached(j) =>
       /\ (\A i \in 1..(j - 1) : ~(SameList(i, j) /\ ncalls[i].ilvl = ncalls[j].ilvl))
             => ncalls[j].counter = InitialValue(j)
       /\ (LastAtOrAbove(j) # 0 /\ ncalls[LastAtOrAbove(j)].ilvl = ncalls[j].ilvl)
             => ncalls[j].counter = ncalls[LastAtOrAbove(j)].counter + 1

\* C6: get_indent(list, level) is max(0, level - shift), shift being the
\* base-level shift of the abstract definition of the list, 0 without one.
C6_IndentIsLevelMinusShiftFlooredAtZero ==
    indent # None =>
       LET call == Unwrap(indent)
           shift == IF call.num_id \in DOMAIN num_instances
                       /\ num_instances[call.num_id] \in DOMAIN level_shifts
                    THEN level_shifts[num_instances[call.num_id]] ELSE 0
       IN call.value = (IF call.ilvl - shift > 0 THEN call.ilvl - shift ELSE 0)

(***************************************************************************)
(* Vocabulary of the reference claims, over the history of registrations   *)
(***************************************************************************)

Kinds == {"footnote", "endnote", "comment"}
KindOf(i) == calls[i][1]
IdOf(i) == calls[i][2]
MarkerOf(i) == calls[i][3]

SameReference(i, j) == KindOf(i) = KindOf(j) /\ IdOf(i) = IdOf(j)

\* Entry i of the history cs is the first registration of its identifier.
FirstCallIn(cs, i) == \A j \in 1..(i - 1) : ~(cs[i][1] = cs[j][1] /\ cs[i][2] = cs[j][2])
FirstCall(i) == FirstCallIn(calls, i)

\* Identifiers of a kind registered by the first n calls.
IdsRegistered(kind, n) == { IdOf(i) : i \in { j \in 1..n : KindOf(j) = kind } }

\* The document defines the identifier.
Defined(kind, id) ==
    CASE kind = "footnote" -> \E n \in DOMAIN footnote_text_by_id : DecStr(n) = id
      [] kind = "endnote" -> \E n \in DOMAIN endnote_text_by_id : DecStr(n) = id
      [] kind = "comment" -> id \in DOMAIN comment_text_by_id

\* The identifiers without a definition, as kind:id, in the order of their
\* first reference among the first n calls.
RECURSIVE ExpectedMissing(_)
ExpectedMissing(n) ==
    IF n = 0 THEN <<>>
    ELSE IF FirstCall(n) /\ ~Defined(KindOf(n), IdOf(n))
         THEN Append(ExpectedMissing(n - 1), KindOf(n) \o ":" \o IdOf(n))
         ELSE ExpectedMissing(n - 1)

\* Body that the collected definitions refs hold for the identifier of call i.
BodyIn(refs, i) ==
    LET pos == Cardinality(IdsRegistered(KindOf(i), i))
    IN CASE KindOf(i) = "footnote" -> refs.footnotes[pos]
         [] KindOf(i) = "endnote" -> refs.endnotes[pos]
         [] KindOf(i) = "comment" -> refs.comments[pos][2]

(***************************************************************************)
(* Properties of the reference registry                                    *)
(***************************************************************************)

\* Registering an identifier again returns the marker of its first
\* registration, and each definition list is as long as the number of
\* distinct identifiers registered for its kind.
MarkersAndListLengths ==
    /\ \A i, j \in 1..Len(calls) : SameReference(i, j) => MarkerOf(i) = MarkerOf(j)
    /\ Len(footnotes) = Cardinality(IdsRegistered("footnote", Len(calls)))
    /\ Len(endnotes) = Cardinality(IdsRegistered("endnote", Len(calls)))
    /\ Len(comments) = Cardinality(IdsRegistered("comment", Len(calls)))

\* Registering an identifier again leaves the definition lists unchanged.
RepeatedRegistrationKeepsLists ==
    (Len(calls') = Len(calls) + 1 /\ ~FirstCallIn(calls', Len(calls')))
       => UNCHANGED <<footnotes, endnotes, comments>>

\* C2: for each kind and identifier, registering it again returns the same
\* marker as its first registration and leaves the definition list unchanged;
\* the length of a definition list is the number of distinct identifiers
\* registered for its kind.
C2_RegistrationIsIdempotent ==
    []MarkersAndListLengths /\ [][RepeatedRegistrationKeepsLists]_vars

\* A footnote registered, another one after it, and the first one again.
C2_Witness ==
    /\ Len(calls) = 3
    /\ KindOf(1) = "footnote" /\ KindOf(2) = "footnote"
    /\ SameReference(1, 3) /\ ~SameReference(1, 2)
    /\ MarkerOf(3) = MarkerOf(1)
    /\ Len(footnotes) = 2

\* C10: under strict validation the conversion fails, with MissingReference,
\* exactly when a referenced footnote, endnote or comment has no definition,
\* and the message names each such identifier as kind:id; without strict
\* validation it succeeds, with an empty body for each missing definition.
C10_StrictFailsExactlyOnMissingReference ==
    (rpc = "done" /\ cresult # None) =>
       LET r == Unwrap(cresult)
           m == ExpectedMissing(Len(calls))
       IN IF strict_reference_validation
          THEN /\ r.ok <=> m = <<>>
               /\ ~r.ok => r.kind = "MissingReference" /\ r.msg = Join(m)
          ELSE /\ r.ok
               /\ \A i \in 1..Len(calls) :
                     (FirstCall(i) /\ ~Defined(KindOf(i), IdOf(i)))
                        => BodyIn(r.references, i) = ""

\* A strict conversion refused for two missing identifiers, a defined one
\* having been referenced as well.
C10_Witness ==
    /\ rpc = "done" /\ cresult # None
    /\ strict_reference_validation
    /\ ~Unwrap(cresult).ok
    /\ Len(ExpectedMissing(Len(calls))) = 2
    /\ \E i \in 1..Len(calls) : Defined(KindOf(i), IdOf(i))

\* The index map of a note kind and its definition list agree: the indices in
\* use are exactly 1..n, no two identifiers share one, and position k of the
\* list holds the body of the identifier whose index is k.
NoteIndicesSound(index_by_id, list, text_by_id) ==
    /\ { index_by_id[n] : n \in DOMAIN index_by_id } = 1..Len(list)
    /\ Cardinality(DOMAIN index_by_id) = Len(list)
    /\ \A n \in DOMAIN index_by_id :
          list[index_by_id[n]] = (IF n \in DOMAIN text_by_id THEN text_by_id[n] ELSE "")

\* The identifier first registered by call i, the k-th distinct one of its
\* kind, has index k in the index map and k in its marker.
FirstSeenOrder(kind, index_by_id, i) ==
    LET k == Cardinality(IdsRegistered(kind, i))
    IN /\ \E n \in DOMAIN index_by_id : DecStr(n) = IdOf(i) /\ index_by_id[n] = k
       /\ MarkerOf(i) = (IF kind = "footnote" THEN footnote_marker(k) ELSE endnote_marker(k))

NoteIndicesAreFirstSeenRanks ==
    /\ NoteIndicesSound(footnote_index_by_id, footnotes, footnote_text_by_id)
    /\ NoteIndicesSound(endnote_index_by_id, endnotes, endnote_text_by_id)
    /\ \A i \in 1..Len(calls) :
          /\ (KindOf(i) = "footnote" /\ FirstCall(i))
                => FirstSeenOrder("footnote", footnote_index_by_id, i)
          /\ (KindOf(i) = "endnote" /\ FirstCall(i))
                => FirstSeenOrder("endnote", endnote_index_by_id, i)

\* An index, once assigned, stays.
NoteIndicesNeverChange ==
    /\ \A n \in DOMAIN footnote_index_by_id :
          n \in DOMAIN footnote_index_by_id'
          /\ footnote_index_by_id'[n] = footnote_index_by_id[n]
    /\ \A n \in DOMAIN endnote_index_by_id :
          n \in DOMAIN endnote_index_by_id'
          /\ endnote_index_by_id'[n] = endnote_index_by_id[n]

\* C11: for footnotes and for endnotes the k-th distinct identifier registered
\* gets index k; the indices in use are exactly 1..n without gap or repeat,
\* position k of the definition list holds the body of the identifier of
\* index k, and an index never changes once assigned.
C11_IndicesFollowFirstSeenOrder ==
    []NoteIndicesAreFirstSeenRanks /\ [][NoteIndicesNeverChange]_vars

\* Footnote 2 then footnote 1 registered, then endnote 2: footnote 2 has
\* index 1, footnote 1 index 2, and the endnotes count on their own.
C11_Witness ==
    /\ Len(calls) = 3
    /\ <<KindOf(1), KindOf(2), KindOf(3)>> = <<"footnote", "footnote", "endnote">>
    /\ <<IdOf(1), IdOf(2), IdOf(3)>> = <<"2", "1", "2">>
    /\ footnote_index_by_id[2] = 1 /\ footnote_index_by_id[1] = 2
    /\ endnote_index_by_id[2] = 1

\* The definition list of a kind, with the entry a missing identifier adds.
WithEmptyBody(kind, id) ==
    CASE kind = "footnote" -> footnotes' = Append(footnotes, "")
      [] kind = "endnote" -> endnotes' = Append(endnotes, "")
      [] kind = "comment" -> comments' = Append(comments, <<id, "">>)

\* What one registration does to the list of diagnostics.
RegistrationDiagnostic ==
    (Len(calls') = Len(calls) + 1) =>
       LET i == Len(calls')
           kind == calls'[i][1]
           id == calls'[i][2]
       IN IF FirstCallIn(calls', i) /\ ~Defined(kind, id)
          THEN /\ missing_references' = Append(missing_references, kind \o ":" \o id)
               /\ WithEmptyBody(kind, id)
          ELSE missing_references' = missing_references

\* C12: the first registration of an identifier without a body appends exactly
\* one diagnostic kind:id and an empty body to the definition list; an
\* identifier with a body produces no diagnostic, and neither does a repeated
\* registration of a missing identifier.
C12_OneDiagnosticPerMissingIdentifier == [][RegistrationDiagnostic]_vars

\* A missing identifier registered twice and a defined one once: one diagnostic.
C12_Witness ==
    /\ rpc = "extract"
    /\ Len(calls) = 3
    /\ SameReference(1, 2) /\ ~Defined(KindOf(1), IdOf(1))
    /\ Defined(KindOf(3), IdOf(3))
    /\ missing_references = << KindOf(1) \o ":" \o IdOf(1) >>

\* The diagnostics of the registrations a+1..b, in order.
RECURSIVE ExpectedBetween(_, _)
ExpectedBetween(a, b) ==
    IF b <= a THEN <<>>
    ELSE IF FirstCall(b) /\ ~Defined(KindOf(b), IdOf(b))
         THEN Append(ExpectedBetween(a, b - 1), KindOf(b) \o ":" \o IdOf(b))
         ELSE ExpectedBetween(a, b - 1)

\* Number of registrations made before drain k; 0 for k = 0.
DrainedAt(k) == IF k = 0 THEN 0 ELSE drained[k].at

\* Each drain returned the diagnostics recorded since the drain before it, and
\* the list holds those recorded since the last drain.
DrainsReturnWhatWasRecorded ==
    /\ \A k \in 1..Len(drained) :
          drained[k].returned = ExpectedBetween(DrainedAt(k - 1), DrainedAt(k))
    /\ missing_references = ExpectedBetween(DrainedAt(Len(drained)), Len(calls))

\* A drain changes neither a definition list nor a cache.
DrainKeepsRegistry ==
    (drained' # drained) =>
       UNCHANGED <<footnotes, footnote_index_by_id, endnotes, endnote_index_by_id,
                   comments, seen_comment_ids>>

\* C13: take_missing_references returns the diagnostics recorded since the
\* previous call, in recording order, and empties the list (a second call
\* right after returns nothing); it changes neither the definition lists nor
\* the caches, so a missing identifier registered again after the drain
\* records no new diagnostic.
C13_DrainIsOneShot == []DrainsReturnWhatWasRecorded /\ [][DrainKeepsRegistry]_vars

\* A missing footnote registered and drained, registered again and drained
\* again: the second drain returns nothing.
C13_Witness ==
    /\ Len(calls) = 2 /\ SameReference(1, 2) /\ KindOf(1) = "footnote"
    /\ Len(drained) = 2
    /\ drained[1] = [at |-> 1, returned |-> << "footnote:" \o IdOf(1) >>]
    /\ drained[2] = [at |-> 2, returned |-> <<>>]
    /\ Len(footnotes) = 1

(***************************************************************************)
(* Properties of the rendered document                                     *)
(***************************************************************************)

\* The lines of a text: the pieces between line breaks.
RECURSIVE LinesFrom(_, _)
LinesFrom(s, cur) ==
    IF s = <<>> THEN (IF cur = <<>> THEN <<>> ELSE <<cur>>)
    ELSE IF s[1] = "\n" THEN <<cur>> \o LinesFrom(Tail(s), <<>>)
    ELSE LinesFrom(Tail(s), Append(cur, s[1]))

LinesOf(s) == LinesFrom(s, <<>>)

\* The line is the definition line of the label: `label: text`.
DefinitionLine(line, label) == MatchAt(line, label \o <<":", " ">>, 1)
DefinitionText(line, label) == SubSeq(line, Len(label) + 3, Len(line))
IsDefinitionLine(line) == \E label \in MarkerTexts : DefinitionLine(line, label)
LabelOfLine(line) == CHOOSE label \in MarkerTexts : DefinitionLine(line, label)

\* The marker stands in the text of the document, outside the definition lines.
MarkerInText(lines, label) ==
    \E k \in 1..Len(lines) : ~IsDefinitionLine(lines[k]) /\ Contains(lines[k], label)

\* The body the document defines for the identifier of call i, empty when it
\* defines none.
DefinedBody(i) ==
    IF ~Defined(KindOf(i), IdOf(i)) THEN ""
    ELSE CASE KindOf(i) = "footnote" ->
                 footnote_text_by_id[CHOOSE n \in DOMAIN footnote_text_by_id : DecStr(n) = IdOf(i)]
           [] KindOf(i) = "endnote" ->
                 endnote_text_by_id[CHOOSE n \in DOMAIN endnote_text_by_id : DecStr(n) = IdOf(i)]
           [] KindOf(i) = "comment" -> comment_text_by_id[IdOf(i)]

\* Every marker returned for an identifier has exactly one definition line,
\* holding the identifier's body; a comment's label is its source identifier.
EveryMarkerHasItsDefinitionLine(lines) ==
    \A i \in 1..Len(calls) :
        LET label == TextOf(MarkerOf(i))
            defs == {k \in 1..Len(lines) : DefinitionLine(lines[k], label)}
        IN /\ Cardinality(defs) = 1
           /\ \A k \in defs : DefinitionText(lines[k], label) = TextOf(DefinedBody(i))
           /\ KindOf(i) = "comment" => label = <<"[", "^", "c">> \o TextOf(IdOf(i)) \o <<"]">>

\* Every definition line has its marker somewhere in the text.
EveryDefinitionLineHasItsMarker(lines) ==
    \A k \in 1..Len(lines) :
        IsDefinitionLine(lines[k]) => MarkerInText(lines, LabelOfLine(lines[k]))

\* C14: in the rendered document every footnote, endnote and comment marker
\* emitted for an identifier has exactly one definition line, whose text is
\* the identifier's body and, for a comment, whose label is the source
\* identifier; and no definition line exists without a marker in the text.
C14_MarkersAndDefinitionLinesCorrespond ==
    dpc = "rendered" =>
       /\ EveryMarkerHasItsDefinitionLine(LinesOf(markdown))
       /\ EveryDefinitionLineHasItsMarker(LinesOf(markdown))

(***************************************************************************)
(* Properties of the style resolver: priority of the sources               *)
(***************************************************************************)

CharFields == {"bold", "italics", "strike", "underline"}

\* A style and its bases, most derived first; n bounds the length.
RECURSIVE Lineage(_, _)
Lineage(id, n) ==
    IF n = 0 \/ id = NoneV \/ id \notin DOMAIN style_map THEN <<>>
    ELSE <<id>> \o Lineage(style_map[id].base, n - 1)

RECURSIVE CharacterOf(_)
CharacterOf(ids) ==
    IF ids = <<>> THEN <<>> ELSE <<style_map[ids[1]].character>> \o CharacterOf(Tail(ids))

\* The sources of a run's character properties, highest priority first.
SourcesByPriority(args) ==
    <<args.direct>>
        \o CharacterOf(Lineage(args.run_style_id, MaxChain))
        \o CharacterOf(Lineage(args.para_style_id, MaxChain))
        \o <<doc_defaults.character>>

\* The field's value in the first source that has it.
RECURSIVE FirstPresent(_, _)
FirstPresent(srcs, f) ==
    IF srcs = <<>> THEN NoneV
    ELSE IF srcs[1] # None /\ Unwrap(srcs[1])[f] # NoneV THEN Unwrap(srcs[1])[f]
    ELSE FirstPresent(Tail(srcs), f)

RunResolved == spc = "idle" /\ sargs.kind = "run" /\ sresult # None

\* C15: each tracked character field of a resolved run has the value of the
\* highest-priority source in which it is present (direct formatting, the run
\* style and its bases, the paragraph style and its bases, the document
\* defaults); a source without the field changes nothing.
C15_FieldComesFromHighestPrioritySource ==
    RunResolved =>
       \A f \in CharFields : Unwrap(sresult)[f] = FirstPresent(SourcesByPriority(sargs), f)

\* A run with direct bold, run style B based on A and paragraph style A:
\* bold comes from the run, not from B or A; the other fields come from B.
C15_Witness ==
    /\ RunResolved
    /\ sargs.direct = Some([bold |-> "on", italics |-> NoneV, strike |-> NoneV,
                            underline |-> NoneV])
    /\ sargs.run_style_id = "B" /\ sargs.para_style_id = "A"
    /\ Lineage("B", MaxChain) = <<"B", "A">>
    /\ style_map["B"].character # None /\ style_map["A"].character # None
    /\ doc_defaults.character # None
    /\ Unwrap(sresult) = [bold |-> "on", italics |-> "on", strike |-> "on",
                          underline |-> "single"]

(***************************************************************************)
(* Properties of the field state                                           *)
(***************************************************************************)

IsFieldChar(w, k, ty) == w[k].item = "FieldChar" /\ w[k].ty = ty

\* Number of fields open after the first k items.
RECURSIVE OpenAfter(_, _)
OpenAfter(w, k) ==
    IF k = 0 THEN 0
    ELSE IF IsFieldChar(w, k, "begin") THEN OpenAfter(w, k - 1) + 1
    ELSE IF IsFieldChar(w, k, "end") /\ OpenAfter(w, k - 1) > 0 THEN OpenAfter(w, k - 1) - 1
    ELSE OpenAfter(w, k - 1)

\* The field begun at item q is still open just before item p.
OpenAt(w, q, p) ==
    /\ q < p /\ IsFieldChar(w, q, "begin")
    /\ \A r \in q..(p - 1) : OpenAfter(w, r) >= OpenAfter(w, q)

\* The field begun at q has had its separate before item p.
SeparatedBefore(w, q, p) ==
    \E r \in (q + 1)..(p - 1) :
        IsFieldChar(w, r, "separate") /\ OpenAfter(w, r) = OpenAfter(w, q)

\* Item p is outside every field, or the innermost field open at p is past
\* its separate.
NotInInstructionPhase(w, p) ==
    \A q \in 1..(p - 1) :
        (OpenAt(w, q, p) /\ \A q2 \in (q + 1)..(p - 1) : ~OpenAt(w, q2, p))
           => SeparatedBefore(w, q, p)

RECURSIVE VisibleTextFrom(_, _)
VisibleTextFrom(w, p) ==
    IF p > Len(w) THEN <<>>
    ELSE (IF w[p].item = "Text" /\ NotInInstructionPhase(w, p) THEN w[p].text ELSE <<>>)
             \o VisibleTextFrom(w, p + 1)

RECURSIVE SegmentsText(_)
SegmentsText(segs) == IF segs = <<>> THEN <<>> ELSE segs[1].text \o SegmentsText(Tail(segs))

\* C16: walking the runs of a paragraph in order, a text item is emitted
\* exactly when the innermost open field is not in its instruction phase:
\* hidden between begin and separate, visible between separate and end, the
\* enclosing field's phase applying again after an inner end; the field state
\* carries over from one run to the next.
C16_EmittedExactlyOutsideInstructionPhase ==
    dpc = "paragraph" =>
       SegmentsText(segments) = VisibleTextFrom(WalkedItems(para.content), 1)

\* A field begins in the first run, which holds its instruction; the second
\* run holds the separator and the result: only the result is emitted.
C16_Witness ==
    /\ dpc = "paragraph"
    /\ Len(para.content) = 2
    /\ para.content[1].content = <<FieldChar("begin"), InstrText>>
    /\ para.content[2].content = <<FieldChar("separate"), Text(<<"b">>)>>
    /\ SegmentsText(segments) = <<"b">>
    /\ field_stack = <<"Result">>

(***************************************************************************)
(* Properties of merge_segments                                            *)
(***************************************************************************)

\* The flags of a segment: everything but its text.
FlagsOf(seg) == [seg EXCEPT !.text = <<>>]

RECURSIVE FlagsOfAll(_)
FlagsOfAll(segs) ==
    IF segs = <<>> THEN <<>> ELSE <<FlagsOf(segs[1])>> \o FlagsOfAll(Tail(segs))

\* A sequence with every run of equal neighbours reduced to one element.
RECURSIVE Collapse(_)
Collapse(fs) ==
    IF Len(fs) <= 1 THEN fs
    ELSE IF fs[1] = fs[2] THEN Collapse(Tail(fs))
    ELSE <<fs[1]>> \o Collapse(Tail(fs))

NoEqualNeighbours(segs) ==
    \A k \in 1..(Len(segs) - 1) : FlagsOf(segs[k]) # FlagsOf(segs[k + 1])

\* C17: merge_segments joins two adjacent segments exactly when all their
\* flags (bold, italic, underline, strike, insertion, deletion, anchor) are
\* equal: the flags of the output are those of the input with equal
\* neighbours joined, no two neighbours of the output have equal flags, the
\* texts concatenate to the same text in the same order, and merging a merged
\* list changes nothing.
C17_MergeJoinsExactlyEqualFlags ==
    \A k \in 1..Len(body) :
        body[k].kind = "merge_segments" =>
           /\ FlagsOfAll(body[k].merged) = Collapse(FlagsOfAll(body[k].input))
           /\ NoEqualNeighbours(body[k].merged)
           /\ SegmentsText(body[k].merged) = SegmentsText(body[k].input)
           /\ k > 1 => body[k].merged = body[k].input

\* Two plain segments followed by a bold one: the plain ones are joined, the
\* bold one is kept apart, and a second merge returns the same list.
C17_Witness ==
    /\ Len(body) = 2
    /\ body[1].input = <<PlainSegment(<<"x">>), PlainSegment(<<"y">>),
                         WithFlag(PlainSegment(<<"x">>), "is_bold")>>
    /\ body[1].merged = <<PlainSegment(<<"x", "y">>),
                          WithFlag(PlainSegment(<<"x">>), "is_bold")>>
    /\ body[2].merged = body[1].merged

(***************************************************************************)
(* Properties of the level templates                                       *)
(***************************************************************************)

PlaceholderDigits == {"1", "2", "3", "4", "5", "6", "7", "8", "9"}

DigitValue(c) == CHOOSE k \in 1..9 : Chars(k) = <<c>>

\* The number format a list declares for level i; "decimal" stands in for a
\* level the list does not declare.
DeclaredFormat(levels, i) ==
    IF \E k \in 1..Len(levels) : levels[k].ilvl = i
    THEN (CHOOSE l \in {levels[k] : k \in 1..Len(levels)} : l.ilvl = i).num_fmt
    ELSE "decimal"

\* The template read from left to right, every placeholder %k standing for
\* the counter of level k-1 in that level's format, a zero counter shown as 1.
RECURSIVE Expanded(_, _, _)
Expanded(template, cs, levels) ==
    IF template = <<>> THEN <<>>
    ELSE IF Len(template) >= 2 /\ template[1] = "%" /\ template[2] \in PlaceholderDigits
         THEN LET k == DigitValue(template[2])
                  shown == IF cs[k] = 0 THEN 1 ELSE cs[k]
              IN format_num(DeclaredFormat(levels, k - 1), shown)
                     \o Expanded(SubSeq(template, 3, Len(template)), cs, levels)
         ELSE <<template[1]>> \o Expanded(SubSeq(template, 2, Len(template)), cs, levels)

\* The list of id num_id declares level 3 alone, with the template "%4.", and
\* has no base shift.
IsDeepList(num_id) ==
    /\ num_id \in DOMAIN num_instances
    /\ num_instances[num_id] \in DOMAIN abstract_nums
    /\ num_instances[num_id] \notin DOMAIN level_shifts
    /\ LET levels == abstract_nums[num_instances[num_id]]
       IN /\ Len(levels) = 1
          /\ levels[1].ilvl = 3
          /\ levels[1].lvl_text = Some(<<"%", "4", ".">>)

\* Call k is the first item of its list: no earlier call named the list.
IsFirstItem(cs, k) == \A j \in 1..(k - 1) : cs[j].num_id # cs[k].num_id

ZeroWidthAnchor(seg) == seg.text = <<>> /\ seg.anchor # None

\* The names of the anchor segments before the first other segment, and of
\* all anchor segments, in source order.
RECURSIVE LeadingAnchorNames(_)
LeadingAnchorNames(segs) ==
    IF segs # <<>> /\ ZeroWidthAnchor(segs[1])
    THEN <<Unwrap(segs[1].anchor)>> \o LeadingAnchorNames(SubSeq(segs, 2, Len(segs)))
    ELSE <<>>

RECURSIVE AllAnchorNames(_)
AllAnchorNames(segs) ==
    IF segs = <<>> THEN <<>>
    ELSE (IF ZeroWidthAnchor(segs[1]) THEN <<Unwrap(segs[1].anchor)>> ELSE <<>>)
             \o AllAnchorNames(SubSeq(segs, 2, Len(segs)))

\* <a id="NAME"></a> for each name in turn.
RECURSIVE TagsOf(_)
TagsOf(names) ==
    IF names = <<>> THEN <<>>
    ELSE <<"<", "a", " ", "i", "d", "=", "\"">> \o names[1] \o <<"\"", ">", "<", "/", "a", ">">>
             \o TagsOf(SubSeq(names, 2, Len(names)))

IsVisibleText(seg) == \E k \in 1..Len(seg.text) : ~is_whitespace(seg.text[k])
HasVisibleText(segs) == \E k \in 1..Len(segs) : IsVisibleText(segs[k])

RECURSIVE WithoutNewlines(_)
WithoutNewlines(cs) ==
    IF cs = <<>> THEN <<>>
    ELSE (IF cs[1] = "\n" THEN <<>> ELSE <<cs[1]>>) \o WithoutNewlines(SubSeq(cs, 2, Len(cs)))

\* The paragraph converted last: what convert returned, the marker and the
\* indentation the numbering resolver gave it, and what it yields once the
\* leading anchors are taken away.
ConvertedLast == body[Len(body)].converted
FormatLast == body[Len(body)].fmt
MarkerLast == IF FormatLast.numbering # None /\ ncalls # <<>>
              THEN ncalls[Len(ncalls)].marker ELSE <<>>
IndentLast == IF FormatLast.numbering # None
              THEN get_indent(Unwrap(FormatLast.numbering).num_id,
                              Unwrap(FormatLast.numbering).ilvl)
              ELSE 0
AfterLeading(segs) == SubSeq(segs, Len(LeadingAnchorNames(segs)) + 1, Len(segs))
ParagraphLine == convert(AfterLeading(segments), FormatLast, MarkerLast, IndentLast)

\* The leading anchors are tags, in source order, on a line before the
\* heading prefix, the list marker and the text.
LeadingAnchorsOnTheLineBefore ==
    (LeadingAnchorNames(segments) # <<>> /\ HasVisibleText(segments)) =>
        ConvertedLast = TagsOf(LeadingAnchorNames(segments)) \o <<"\n">> \o ParagraphLine

\* An anchor that comes after visible content is a tag inside the
\* paragraph's line.
LaterAnchorsInline ==
    \A k \in 1..Len(segments) :
        (ZeroWidthAnchor(segments[k]) /\ \E j \in 1..(k - 1) : IsVisibleText(segments[j])) =>
            /\ Contains(ParagraphLine, TagsOf(<<Unwrap(segments[k].anchor)>>))
            /\ \E n \in 0..Len(ConvertedLast) :
                  SubSeq(ConvertedLast, n + 1, Len(ConvertedLast)) = ParagraphLine

\* With anchors and no visible text, the paragraph yields the tags alone.
OnlyTagsWithoutVisibleText ==
    (AllAnchorNames(segments) # <<>> /\ ~HasVisibleText(segments)) =>
        WithoutNewlines(ConvertedLast) = TagsOf(AllAnchorNames(segments))

\* C19: the zero-width anchor segments before the first other segment of a
\* paragraph are rendered, in source order, as <a id="NAME"></a> tags on a
\* line before the heading prefix, the list marker and the text; an anchor
\* after visible content stays inline; a paragraph with anchors but no visible
\* text yields only the anchor tags.
C19_LeadingAnchorsHoisted ==
    (dpc = "body" /\ body # <<>> /\ body[Len(body)].kind = "Paragraph") =>
        /\ LeadingAnchorsOnTheLineBefore
        /\ LaterAnchorsInline
        /\ OnlyTagsWithoutVisibleText

(***************************************************************************)
(* Properties of the order of processing                                   *)
(***************************************************************************)

\* The last body item is a table whose conversion has not returned.
TableEntered ==
    /\ body # <<>>
    /\ body[Len(body)].kind = "Table"
    /\ dpc # "body"
    /\ (dpc = "table" \/ gpc = "build")

\* The body items whose conversion has returned.
FinishedItems == IF TableEntered THEN SubSeq(body, 1, Len(body) - 1) ELSE body

\* The blocks the items of the body stand for, item by item.
RECURSIVE BlocksOfItems(_)
BlocksOfItems(items) ==
    IF items = <<>> THEN <<>>
    ELSE LET item == items[1]
             b == CASE item.kind = "Paragraph" ->
                          IF item.converted = <<>> THEN <<>>
                          ELSE << [kind |-> "Paragraph", text |-> item.converted] >>
                    [] item.kind = "BookmarkStart" ->
                          << [kind |-> "RawHtml", text |-> item.converted] >>
                    [] item.kind = "Table" ->
                          << [kind |-> "TableHtml", text |-> item.converted] >>
         IN b \o BlocksOfItems(SubSeq(items, 2, Len(items)))

BlocksInBodyOrder == blocks = BlocksOfItems(FinishedItems)

\* The line of the table markup for a cell with the given content and spans.
TdOf(name, rowspan, colspan) ==
    "    <td" \o (IF rowspan > 1 THEN " rowspan=\"" \o DecStr(rowspan) \o "\"" ELSE "")
              \o (IF colspan > 1 THEN " colspan=\"" \o DecStr(colspan) \o "\"" ELSE "")
              \o ">" \o name \o "</td>\n"

CellNames == {CellText(r, k) : r \in 0..MaxRows, k \in 1..(MaxCols + MaxSdt + 1)}

\* Every line of markup that renders a cell, with the cell it renders.
TdLines ==
    {<<TdOf(n, rowspan, colspan), n>> :
        n \in CellNames, rowspan \in 1..(2 * MaxRows), colspan \in 1..(MaxCols + 1)}
CellOfTdLine == [line \in {p[1] : p \in TdLines} |-> CHOOSE n \in CellNames : <<line, n>> \in TdLines]

\* The cell a line of the markup renders, if it renders one.
CellsOfLine(line) == IF line \in DOMAIN CellOfTdLine THEN {CellOfTdLine[line]} ELSE {}

\* The cells the markup renders, row by row, in the order of the lines.
RECURSIVE HtmlRows(_, _)
HtmlRows(lines, rows) ==
    IF lines = <<>> THEN rows
    ELSE LET rest == SubSeq(lines, 2, Len(lines))
         IN IF lines[1] = "  <tr>\n" THEN HtmlRows(rest, Append(rows, <<>>))
            ELSE IF CellsOfLine(lines[1]) # {} /\ rows # <<>>
                 THEN HtmlRows(rest, SubSeq(rows, 1, Len(rows) - 1)
                                        \o <<Append(rows[Len(rows)],
                                                    CHOOSE n \in CellsOfLine(lines[1]) : TRUE)>>)
                 ELSE HtmlRows(rest, rows)

\* The cells of the source table that carry content, row by row and cell by
\* cell: item k of row r unless it is a continuation or no cell.
RECURSIVE SourceCells(_, _, _)
SourceCells(items, r, k) ==
    IF k > Len(items) THEN <<>>
    ELSE (IF items[k].kind = "cell" /\ ~items[k].continue THEN <<CellText(r, k)>> ELSE <<>>)
             \o SourceCells(items, r, k + 1)

RECURSIVE SourceRows(_, _)
SourceRows(t, r) ==
    IF r >= Len(t) THEN <<>> ELSE <<SourceCells(t[r + 1], r, 1)>> \o SourceRows(t, r + 1)

CellsRowByRow == (gpc = "done" /\ impl = "table") => HtmlRows(html, <<>>) = SourceRows(table, 0)

\* The references of a paragraph's children, in order.
RECURSIVE RefsOfRun(_)
RefsOfRun(content) ==
    IF content = <<>> THEN <<>>
    ELSE (IF content[1].item = "Reference"
          THEN << <<content[1].kind, content[1].id>> >> ELSE <<>>)
             \o RefsOfRun(SubSeq(content, 2, Len(content)))

RECURSIVE RefsOfChildren(_)
RefsOfChildren(children) ==
    IF children = <<>> THEN <<>>
    ELSE RefsOfRun(children[1].content) \o RefsOfChildren(SubSeq(children, 2, Len(children)))

\* The references of the cells of a table, row by row and cell by cell.
RECURSIVE RefsOfCells(_, _, _)
RefsOfCells(cs, r, k) ==
    IF r > MaxRows THEN <<>>
    ELSE IF k > MaxCols + 1 THEN RefsOfCells(cs, r + 1, 1)
    ELSE LET here == {i \in 1..Len(cs) : cs[i].row = r /\ cs[i].k = k}
         IN (IF here = {} THEN <<>> ELSE RefsOfChildren(cs[CHOOSE i \in here : TRUE].content))
                \o RefsOfCells(cs, r, k + 1)

RECURSIVE RefsOfItems(_)
RefsOfItems(items) ==
    IF items = <<>> THEN <<>>
    ELSE (CASE items[1].kind = "Paragraph" -> RefsOfChildren(items[1].content)
            [] items[1].kind = "Table" -> RefsOfCells(items[1].content, 0, 1)
            [] OTHER -> <<>>)
             \o RefsOfItems(SubSeq(items, 2, Len(items)))

\* Every reference met so far, in source order: those of the body items and
\* those of the paragraph being converted.
SourceRefs ==
    RefsOfItems(body) \o (IF dpc = "paragraph" THEN RefsOfChildren(para.content) ELSE <<>>)

FirstPosition(refs, ref) == CHOOSE i \in 1..Len(refs) :
                                /\ refs[i] = ref
                                /\ \A j \in 1..(i - 1) : refs[j] # ref

DisplayIndexes(kind) ==
    IF kind = "footnote" THEN footnote_index_by_id ELSE endnote_index_by_id

IndicesInSourceOrder ==
    LET refs == SourceRefs
    IN \A kind \in IndexedKinds, a \in NoteIds, b \in NoteIds :
          (/\ \E i \in 1..Len(refs) : refs[i] = <<kind, a>>
           /\ \E i \in 1..Len(refs) : refs[i] = <<kind, b>>
           /\ FirstPosition(refs, <<kind, a>>) < FirstPosition(refs, <<kind, b>>)) =>
              /\ a \in DOMAIN DisplayIndexes(kind)
              /\ b \in DOMAIN DisplayIndexes(kind)
              /\ DisplayIndexes(kind)[a] < DisplayIndexes(kind)[b]

\* C20: the document is processed in source order: the blocks are in the
\* order of the body items, the cells of a table are rendered row by row and
\* cell by cell, and of two footnote (or two endnote) identifiers the one
\* first referenced earlier in the document, in paragraphs and table cells
\* alike, has the smaller display index.
C20_ProcessedInSourceOrder ==
    /\ BlocksInBodyOrder
    /\ CellsRowByRow
    /\ IndicesInSourceOrder

\* A paragraph that refers to footnote 2, then a table whose first row refers
\* to footnote 1 and whose second row holds a continuation and a cell that
\* refers to footnote 2 again: footnote 2 has the index 1, footnote 1 the
\* index 2, and both blocks are there.
C20_Witness ==
    /\ dpc = "body"
    /\ Len(body) = 2 /\ Len(blocks) = 2
    /\ body[1].kind = "Paragraph" /\ RefsOfChildren(body[1].content) = << <<"footnote", 2>> >>
    /\ body[2].kind = "Table"
    /\ blocks[2] = [kind |-> "TableHtml", text |-> html]
    /\ Len(table) = 2 /\ Len(table[1]) = 1 /\ Len(table[2]) = 2 /\ table[2][1].continue
    /\ SourceRefs = << <<"footnote", 2>>, <<"footnote", 1>>, <<"footnote", 2>> >>
    /\ footnote_index_by_id[2] = 1 /\ footnote_index_by_id[1] = 2
    /\ HtmlRows(html, <<>>) = << <<CellText(0, 1)>>, <<CellText(1, 2)>> >>

(***************************************************************************)
(* Properties of next_marker: unresolvable lists and the frame of a call   *)
(***************************************************************************)

\* The list id has no instance, or its instance names an abstract list that
\* is not defined.
Unresolvable(num_id) ==
    \/ num_id \notin DOMAIN num_instances
    \/ num_instances[num_id] \notin DOMAIN abstract_nums

\* The step is a call of next_marker; the call it made.
IsMarkerCall == Len(ncalls') = Len(ncalls) + 1
NewCall == ncalls'[Len(ncalls')]

\* C21: next_marker for a list id that has no instance, or whose abstract
\* definition is missing, returns the marker "-" without reaching the
\* counters, and leaves the counters of every abstract list as they were.
C21_UnresolvableListGivesDash ==
    [][(IsMarkerCall /\ Unresolvable(NewCall.num_id)) =>
          /\ NewCall.marker = <<"-">>
          /\ NewCall.counter = 0 - 1
          /\ counters' = counters]_vars

\* A call on list 1 has set a counter; the calls that follow, on an instance
\* whose abstract list is missing (4) and on an id without instance (5),
\* return "-" and the counter is as the first call left it.
C21_Witness ==
    /\ Len(ncalls) = 3
    /\ <<ncalls[1].num_id, ncalls[2].num_id, ncalls[3].num_id>> = <<1, 4, 5>>
    /\ ncalls[1].ilvl = 0 /\ ncalls[1].counter = 3
    /\ ncalls[2].marker = <<"-">> /\ ncalls[3].marker = <<"-">>
    /\ DOMAIN counters = {1}
    /\ counters[1][1] = 3

(***************************************************************************)
(* Properties of conversions run from one converter                        *)
(***************************************************************************)

\* The conversion of a document on its own: the items in order, from the
\* state a fresh resolver and a fresh context have.
RECURSIVE AloneFrom(_, _, _)
AloneFrom(l, doc, done) ==
    IF doc = <<>> THEN [blocks |-> done, footnotes |-> l.footnotes]
    ELSE LET r == ItemIn(l, doc[1])
         IN AloneFrom(r.locals, Tail(doc), Append(done, r.text))

ConvertedAlone(doc) == AloneFrom(LocalsNew, doc, <<>>)

\* C22: each conversion owns its counters and its registry: however the
\* conversions run from one converter interleave, the blocks a conversion has
\* produced so far, and its output once finished, are those of converting its
\* document alone, and two conversions of the same document give the same
\* output.
C22_ConversionsAreIndependent ==
    /\ \A c \in ConversionIds :
          /\ conversions[c].blocks =
                ConvertedAlone(SubSeq(conversions[c].doc, 1, conversions[c].pos)).blocks
          /\ conversions[c].output # None =>
                Unwrap(conversions[c].output) = ConvertedAlone(conversions[c].doc)
    /\ \A c1, c2 \in ConversionIds :
          (/\ conversions[c1].output # None /\ conversions[c2].output # None
           /\ conversions[c1].doc = conversions[c2].doc)
             => conversions[c1].output = conversions[c2].output

\* Two conversions of the same document, two items of one abstract list, each
\* converting an item while the other was part-way: both number 1., 2.
C22_Witness ==
    /\ \A c \in ConversionIds :
          /\ conversions[c].doc = <<ListItem(1, 0), ListItem(2, 0)>>
          /\ conversions[c].overlapped
          /\ conversions[c].output # None
          /\ Unwrap(conversions[c].output).blocks = << <<"1", ".">>, <<"2", ".">> >>

(***************************************************************************)
(* Properties of the calls of the cell renderer                            *)
(***************************************************************************)

\* The cells of the rows read so far that are not continuations, row by row
\* and from left to right: <<row index, place among the items of the row>>.
RECURSIVE MastersOfRow(_, _, _)
MastersOfRow(t, r, k) ==
    IF k > Len(t[r]) THEN <<>>
    ELSE (IF IsMaster(t, r, k) THEN << <<r - 1, k>> >> ELSE <<>>) \o MastersOfRow(t, r, k + 1)

RECURSIVE MastersFrom(_, _)
MastersFrom(t, r) == IF r > Len(t) THEN <<>> ELSE MastersOfRow(t, r, 1) \o MastersFrom(t, r + 1)

\* The cells the renderer was called for, in the order of the calls.
RenderedCells == [i \in 1..Len(renders) |-> <<renders[i].row, renders[i].k>>]

\* The texts the renderer returned for cells of row r (counted from 0), in the
\* order of the calls.
RECURSIVE ReturnedFor(_, _)
ReturnedFor(rs, r) ==
    IF rs = <<>> THEN <<>>
    ELSE (IF rs[1].row = r /\ rs[1].text # None THEN <<Unwrap(rs[1].text)>> ELSE <<>>)
             \o ReturnedFor(Tail(rs), r)

\* The contents of the Occupied slots of a grid row, from left to right.
RECURSIVE OccupiedContents(_)
OccupiedContents(row) ==
    IF row = <<>> THEN <<>>
    ELSE (IF row[1].status = "Occupied" THEN <<row[1].content>> ELSE <<>>)
             \o OccupiedContents(Tail(row))

\* C23: the cell renderer is called exactly once for each cell whose vertical
\* merge is restart or absent, in row-major document order, and never for a
\* continuation cell; the Occupied cells of each grid row hold, from left to
\* right, what the renderer returned for the cells of that row.
C23_RendererCalledOncePerMasterCell ==
    /\ RenderedCells = MastersFrom(table, 1)
    /\ \A r \in 1..Len(grid) : OccupiedContents(grid[r]) = ReturnedFor(renders, r - 1)

\* A restart cell and a plain cell in the first row, a continuation and a
\* plain cell in the second: three calls, none for the continuation.
C23_Witness ==
    /\ gpc = "done"
    /\ Len(table) = 2 /\ Len(table[1]) = 2 /\ Len(table[2]) = 2
    /\ IsMaster(table, 1, 1) /\ IsMaster(table, 1, 2)
    /\ IsContinuation(table, 2, 1) /\ IsMaster(table, 2, 2)
    /\ RenderedCells = << <<0, 1>>, <<0, 2>>, <<1, 2>> >>
    /\ grid[1][1].content = CellText(0, 1) /\ grid[1][1].rowspan = 2
    /\ grid[2][1].status = "MergedUp"
    /\ grid[2][2].content = CellText(1, 2)

(***************************************************************************)
(* Properties of the spans of the grid                                     *)
(***************************************************************************)

\* Number of MergedLeft slots that follow slot c of row r without a gap.
RECURSIVE MergedLeftRun(_, _, _)
MergedLeftRun(g, r, c) ==
    IF c + 1 <= Len(g[r]) /\ g[r][c + 1].status = "MergedLeft"
    THEN 1 + MergedLeftRun(g, r, c + 1) ELSE 0

\* Number of rows directly below row r whose slot c is MergedUp, without a gap.
RECURSIVE MergedUpRun(_, _, _)
MergedUpRun(g, r, c) ==
    IF r + 1 <= Len(g) /\ c <= Len(g[r + 1]) /\ g[r + 1][c].status = "MergedUp"
    THEN 1 + MergedUpRun(g, r + 1, c) ELSE 0

OccupiedSlots(g) ==
    { rc \in (1..Len(g)) \X (1..(2 * MaxCols)) :
         rc[2] <= Len(g[rc[1]]) /\ g[rc[1]][rc[2]].status = "Occupied" }

\* The rectangles two Occupied cells span have a slot in common.
SpansMeet(g, a, b) ==
    /\ a[1] < b[1] + g[b[1]][b[2]].rowspan /\ b[1] < a[1] + g[a[1]][a[2]].rowspan
    /\ a[2] < b[2] + g[b[1]][b[2]].colspan /\ b[2] < a[2] + g[a[1]][a[2]].colspan

ColspanIsSlotsCovered(g) ==
    \A rc \in OccupiedSlots(g) :
       g[rc[1]][rc[2]].colspan = 1 + MergedLeftRun(g, rc[1], rc[2])
RowspanIsRowsCovered(g) ==
    \A rc \in OccupiedSlots(g) :
       g[rc[1]][rc[2]].rowspan = 1 + MergedUpRun(g, rc[1], rc[2])
SpansDisjoint(g) ==
    \A a, b \in OccupiedSlots(g) : a # b => ~SpansMeet(g, a, b)

\* C24: after build_grid on any table, the colspan of each Occupied cell is
\* the number of slots it covers in its row (itself and the MergedLeft slots
\* that follow it), its rowspan is the number of rows it covers (its own and
\* the rows directly below whose slot in its column is MergedUp), and the
\* spans of two Occupied cells never overlap.
C24_SpansMatchTheMergedSlots ==
    gpc = "done" =>
       /\ ColspanIsSlotsCovered(grid)
       /\ RowspanIsRowsCovered(grid)
       /\ SpansDisjoint(grid)

(***************************************************************************)
(* Properties of increment_rowspan                                         *)
(***************************************************************************)

\* The step reads a continuation cell of the current row.
ReadsContinuation ==
    /\ Len(table') = Len(table)
    /\ table # <<>>
    /\ Len(table'[Len(table)]) = Len(table[Len(table)]) + 1
    /\ IsContinuation(table', Len(table), Len(table'[Len(table)]))

\* Slot (rows and columns counted from 1) the cell read by the step starts at.
ReadCellRow == Len(table')
ReadCellCol == col_idx' - table'[Len(table')][Len(table'[Len(table')])].grid_span + 1

\* Going up from row r in column c through the MergedUp slots: the row of the
\* first slot that is not MergedUp, 0 when the column runs out.
RECURSIVE ClimbFrom(_, _, _)
ClimbFrom(g, r, c) ==
    IF r < 1 \/ c > Len(g[r]) THEN 0
    ELSE IF g[r][c].status = "MergedUp" THEN ClimbFrom(g, r - 1, c)
    ELSE r

\* The Occupied cell of row r, left of column c, whose colspan covers column c
\* over MergedLeft slots only; 0 when there is none.
CoveringMaster(g, r, c) ==
    LET ms == { m \in 1..(c - 1) :
                  /\ g[r][m].status = "Occupied"
                  /\ m + g[r][m].colspan > c
                  /\ \A j \in (m + 1)..c : g[r][j].status = "MergedLeft" }
    IN IF ms = {} THEN 0 ELSE CHOOSE m \in ms : TRUE

\* The Occupied cells of the rows above the current one whose rowspan the step
\* changed.
Incremented ==
    { rc \in OccupiedSlots(grid) : grid'[rc[1]][rc[2]].rowspan # grid[rc[1]][rc[2]].rowspan }

ContinuationIncrementsCoveringMaster ==
    ReadsContinuation =>
       LET t == ClimbFrom(grid, ReadCellRow - 1, ReadCellCol)
       IN /\ (t # 0 /\ grid[t][ReadCellCol].status = "MergedLeft") =>
                LET m == CoveringMaster(grid, t, ReadCellCol)
                IN m # 0 /\ Incremented = {<<t, m>>}
          /\ Cardinality(Incremented) <= 1
          /\ \A rc \in Incremented :
                grid'[rc[1]][rc[2]].rowspan = grid[rc[1]][rc[2]].rowspan + 1

\* C25: when the slot above the column of a continuation cell is MergedLeft,
\* directly or after climbing through MergedUp slots, the rowspan incremented
\* is that of the Occupied cell to the left in that row whose colspan covers
\* the column; a continuation cell increments the rowspan of at most one
\* cell, by exactly one.
C25_MergedLeftAboveIncrementsItsMaster == [][ContinuationIncrementsCoveringMaster]_vars

(***************************************************************************)
(* Properties of the start overrides                                       *)
(***************************************************************************)

\* Call j is made through an instance that has a start override for its level.
HasOverride(j) == <<ncalls[j].num_id, ncalls[j].ilvl>> \in DOMAIN overrides

\* The latest earlier call on the list of call j, at its level or above, was
\* made at its level: the level has been numbered and not reset since.
LevelNumberedBefore(j) ==
    /\ LastAtOrAbove(j) # 0
    /\ ncalls[LastAtOrAbove(j)].ilvl = ncalls[j].ilvl

\* An override is not applied to a counter that is not 0.
OverrideOnlyOnZeroCounter ==
    \A j \in 1..Len(ncalls) :
       (Reached(j) /\ HasOverride(j) /\ LevelNumberedBefore(j)
           /\ ncalls[LastAtOrAbove(j)].counter # 0)
          => ncalls[j].counter = ncalls[LastAtOrAbove(j)].counter + 1

\* A call through an instance with an override, made after another instance
\* of the list has numbered the level, continues from the value that
\* instance left.
OverrideContinuesSharedSequence ==
    \A j \in 1..Len(ncalls) :
       (Reached(j) /\ HasOverride(j) /\ LevelNumberedBefore(j)
           /\ ncalls[LastAtOrAbove(j)].num_id # ncalls[j].num_id)
          => ncalls[j].counter = ncalls[LastAtOrAbove(j)].counter + 1

\* C26: a start override of a list instance is applied only when the counter
\* of the level is 0: a call through an instance that has an override, made
\* after another instance of the same abstract list has numbered the level,
\* continues the shared sequence by +1 and does not restart at the override.
C26_OverrideOnlyWhenUninitialised ==
    OverrideOnlyOnZeroCounter /\ OverrideContinuesSharedSequence

(***************************************************************************)
(* Properties of next_marker: what a call changes                          *)
(***************************************************************************)

\* The counters of an abstract list before its first call: none is set.
CountersBefore(a) == IF a \in DOMAIN counters THEN counters[a] ELSE Grow(<<>>, CounterSlots, 0)

\* The value a call through num_id gives the counter of level L when it
\* initialises it.
InitialOf(num_id, L) ==
    IF <<num_id, L>> \in DOMAIN overrides THEN overrides[<<num_id, L>>]
    ELSE Unwrap(FindLevel(abstract_nums[num_instances[num_id]], L)).start

\* What a call of next_marker changes.  A list id that does not resolve
\* changes nothing; a list that declares no level has no counter initialised
\* or raised.
MarkerCallFrame ==
    IsMarkerCall =>
       LET num_id == NewCall.num_id
           L == NewCall.ilvl
       IN IF Unresolvable(num_id) THEN counters' = counters
          ELSE LET a == num_instances[num_id]
                   old == CountersBefore(a)
                   new == counters'[a]
               IN /\ DOMAIN counters' = DOMAIN counters \cup {a}
                  /\ \A b \in DOMAIN counters \ {a} : counters'[b] = counters[b]
                  /\ Len(new) = Len(old)
                  /\ IF abstract_nums[a] = <<>> THEN new = old
                     ELSE /\ \A k \in 1..L : new[k] = old[k]
                          /\ \/ old[L + 1] = 0 /\ new[L + 1] = InitialOf(num_id, L)
                             \/ old[L + 1] # 0 /\ new[L + 1] = old[L + 1] + 1
                          /\ \A k \in (L + 2)..Len(new) : new[k] = 0

\* A call of get_indent changes nothing of the resolver.
IndentCallFrame ==
    (indent' # indent /\ indent' # None) =>
       UNCHANGED <<num_instances, abstract_nums, overrides, counters, level_shifts>>

\* C27: next_marker(list, L) changes only the counters of the abstract
\* definition of the list: the counters of every other abstract list and of
\* the levels shallower than L stay as they are, the counter of level L is
\* initialised or raised by 1, the counters of the levels deeper than L
\* become 0; get_indent changes no state.
C27_MarkerCallChangesOnlyItsList == [][MarkerCallFrame /\ IndentCallFrame]_vars

\* List 2 numbered at level 1, list 1 at level 1, then list 1 at level 0:
\* level 0 of list 1 is initialised, its level 1 is back to 0, and the counter
\* of list 2 is as its call left it; get_indent was called after.
C27_Witness ==
    /\ Len(ncalls) = 3
    /\ <<ncalls[1].num_id, ncalls[2].num_id, ncalls[3].num_id>> = <<3, 1, 1>>
    /\ <<ncalls[1].ilvl, ncalls[2].ilvl, ncalls[3].ilvl>> = <<1, 1, 0>>
    /\ ncalls[2].counter = 3
    /\ counters[1][1] = 3 /\ counters[1][2] = 0
    /\ counters[2][2] = 1
    /\ indent # None

(***************************************************************************)
(* Properties of the numbering of list paragraphs                          *)
(***************************************************************************)

\* The numbering references of the paragraphs converted so far, in document
\* order: <<list id, level>> of each paragraph that carries one.
RECURSIVE NumberingRefs(_)
NumberingRefs(items) ==
    IF items = <<>> THEN <<>>
    ELSE (IF items[1].kind = "Paragraph" /\ items[1].fmt.numbering # None
          THEN << <<Unwrap(items[1].fmt.numbering).num_id,
                    Unwrap(items[1].fmt.numbering).ilvl>> >>
          ELSE <<>>) \o NumberingRefs(Tail(items))

\* The arguments of the next_marker calls made so far, in order.
MarkerCalls == [i \in 1..Len(ncalls) |-> <<ncalls[i].num_id, ncalls[i].ilvl>>]

\* Number of paragraphs converted so far that are items of level 0 of the
\* list the instances 1 and 2 share.
RECURSIVE TopItems(_)
TopItems(refs) ==
    IF refs = <<>> THEN 0
    ELSE (IF refs[1][1] \in {1, 2} /\ refs[1][2] = 0 THEN 1 ELSE 0) + TopItems(Tail(refs))

\* C28: next_marker is called exactly once for each paragraph whose
\* properties carry a numbering reference, in document order, so the counter
\* of a level that is never reset (level 0, counting from 1) is the number of
\* such paragraphs seen at the level.
C28_OneMarkerCallPerListParagraph ==
    dpc = "body" =>
       /\ MarkerCalls = NumberingRefs(body)
       /\ 1 \in DOMAIN counters => counters[1][1] = TopItems(NumberingRefs(body))

(***************************************************************************)
(* Properties of the instruction phase of a field                          *)
(***************************************************************************)

\* The paragraph is being walked and its innermost open field is between its
\* `begin` and its `separate`.
InInstructionPhase ==
    /\ dpc = "paragraph"
    /\ field_stack # <<>>
    /\ field_stack[Len(field_stack)] = "Instruction"

\* The step walks one more child of the paragraph.
ChildWalked == dpc' = "paragraph" /\ Len(para'.content) = Len(para.content) + 1
NewChild == para'.content[Len(para'.content)]

\* A run that holds a field character moves the phase itself.
HoldsFieldChar(child) ==
    child.child = "Run" /\ \E i \in 1..Len(child.content) : child.content[i].item = "FieldChar"

InstructionChildIsSilent ==
    (InInstructionPhase /\ ChildWalked /\ ~HoldsFieldChar(NewChild))
        => (segments' = segments /\ calls' = calls)

\* C29: while a field is in its instruction phase no child of the paragraph
\* contributes a segment or registers a reference: not a run, a hyperlink, a
\* tracked insertion, a tracked deletion or a bookmark.
C29_InstructionPhaseContributesNothing == [][InstructionChildIsSilent]_vars

(***************************************************************************)
(* Properties of field characters met while no field is open               *)
(***************************************************************************)

\* The run holds text and unmatched field characters only: `end` and
\* `separate`, no `begin` and no instruction text.
UnmatchedOnly(content) ==
    /\ \E i \in 1..Len(content) : content[i].item = "FieldChar"
    /\ \A i \in 1..Len(content) :
          \/ content[i].item = "Text"
          \/ content[i].item = "FieldChar" /\ content[i].ty \in {"end", "separate"}

\* Such a run is walked while no field is open.
UnmatchedRunWalked ==
    /\ dpc = "paragraph"
    /\ field_stack = <<>>
    /\ ChildWalked
    /\ NewChild.child = "Run"
    /\ UnmatchedOnly(NewChild.content)

UnmatchedLeavesFieldStateEmpty ==
    UnmatchedRunWalked =>
       /\ field_stack' = <<>>
       /\ segments' = segments \o run_to_segment(extract_text(NewChild.content), NewChild.props)

\* C30: a field `end` or `separate` met while no field is open leaves the
\* field state empty, the walk goes on, and all the text of the run, before
\* and after the field character, becomes a segment.
C30_UnmatchedEndAndSeparateAreNoOps == [][UnmatchedLeavesFieldStateEmpty]_vars

\* Two runs were walked, <<end, "b">> and <<separate, "b">>: no field is open
\* and both letters are segments.
C30_Witness ==
    /\ dpc = "paragraph"
    /\ Len(para.content) = 2
    /\ para.content[1].content = <<FieldChar("end"), Text(<<"b">>)>>
    /\ para.content[2].content = <<FieldChar("separate"), Text(<<"b">>)>>
    /\ field_stack = <<>>
    /\ SegmentsText(segments) = <<"b", "b">>

(***************************************************************************)
(* Properties of build_grid when the cell renderer fails                   *)
(***************************************************************************)

\* The calls of the renderer that returned an error.
FailedRenders == {i \in 1..Len(renders) : renders[i].text = None}

\* A failed call is the last call: build_grid has returned the error, and
\* nothing was rendered to HTML.
ErrorReturnedAtOnce ==
    \A i \in FailedRenders : i = Len(renders) /\ gpc = "failed" /\ html = <<>>

\* build_grid fails only with an error of the renderer.
FailsOnlyWithTheRenderer == gpc = "failed" => FailedRenders # {}

\* While build_grid runs, whatever the cells read so far, the table may end
\* here and the grid is returned.
GridReturned == gpc = "build" => ENABLED FinishTable

\* After the error no step of build_grid is taken.
NothingAfterTheError == gpc = "failed" => UNCHANGED gridVars

\* C31: an error of the cell renderer is returned at once (no later cell is
\* rendered, no grid is returned), and without such an error build_grid
\* succeeds for every table, whatever its merge metadata.
C31_RendererErrorEndsBuildGrid ==
    /\ [](ErrorReturnedAtOnce /\ FailsOnlyWithTheRenderer /\ GridReturned)
    /\ [][NothingAfterTheError]_vars

\* The renderer returned the text of the first cell of row 0, a continuation
\* followed without a call, and the renderer failed on the next cell.
C31_Witness ==
    /\ gpc = "failed"
    /\ Len(table) = 2
    /\ table[2][1].continue
    /\ Len(renders) = 2
    /\ renders[1].text # None
    /\ renders[2] = RenderCall(1, 2, None)

(***************************************************************************)
(* Properties of render_grid                                               *)
(***************************************************************************)

\* The slots of a grid row that are shown: the Occupied and the Empty ones,
\* in column order.
ShownSlotsOf(row) == SelectSeq(row, LAMBDA cell : cell.status \in {"Occupied", "Empty"})

\* The line of the `<tr>` of grid row r (from 1): after `<table>` and the
\* lines of the rows before it, each with its `<tr>` and `</tr>`.
RECURSIVE TrLineOf(_, _)
TrLineOf(g, r) == IF r = 1 THEN 2 ELSE TrLineOf(g, r - 1) + Len(ShownSlotsOf(g[r - 1])) + 2

\* `name="n"` exactly when n > 1.
SpanAttributeOf(name, n) == IF n > 1 THEN " " \o name \o "=" \o Quote \o DecStr(n) \o Quote ELSE ""

\* The `<td>` of a shown slot.
TdLineOf(cell) ==
    IF cell.status = "Empty" THEN "    <td></td>\n"
    ELSE "    <td" \o SpanAttributeOf("rowspan", cell.rowspan)
                   \o SpanAttributeOf("colspan", cell.colspan)
                   \o ">" \o cell.content \o "</td>\n"

\* C32: render_grid emits, for each grid row in order, one `<td>` per
\* Occupied cell (`rowspan` exactly when rowspan > 1, `colspan` exactly when
\* colspan > 1), one empty `<td></td>` per Empty slot and nothing for the
\* MergedLeft and MergedUp slots.
C32_RenderGridEmitsShownSlots ==
    gpc = "done" =>
       /\ html[1] = "<table>\n"
       /\ Len(html) = TrLineOf(grid, Len(grid) + 1)
       /\ html[Len(html)] = "</table>"
       /\ \A r \in 1..Len(grid) :
             LET shown == ShownSlotsOf(grid[r])
                 at == TrLineOf(grid, r)
             IN /\ html[at] = "  <tr>\n"
                /\ \A j \in 1..Len(shown) : html[at + j] = TdLineOf(shown[j])
                /\ html[at + Len(shown) + 1] = "  </tr>\n"

\* A rendered grid that holds the four kinds of slot, with a cell that spans
\* two rows and two columns.
C32_Witness ==
    /\ gpc = "done"
    /\ \A st \in {"Occupied", "Empty", "MergedLeft", "MergedUp"} :
          \E r \in 1..Len(grid) : \E c \in 1..Len(grid[r]) : grid[r][c].status = st
    /\ \E r \in 1..Len(grid) : \E c \in 1..Len(grid[r]) :
          /\ grid[r][c].status = "Occupied"
          /\ grid[r][c].rowspan = 2
          /\ grid[r][c].colspan = 2

(***************************************************************************)
(* Properties of the three kinds of reference: each has its own namespace  *)
(***************************************************************************)

\* The state the registry keeps for each kind.
FootnoteState == <<footnotes, footnote_index_by_id, footnote_text_by_id>>
EndnoteState == <<endnotes, endnote_index_by_id, endnote_text_by_id>>
CommentState == <<comments, seen_comment_ids, comment_text_by_id>>

\* The step is a registration, and the kind it registers.
IsRegistration == Len(calls') = Len(calls) + 1
RegisteredKind == calls'[Len(calls')][1]

\* A registration leaves the state of the other two kinds as it was.
RegistrationKeepsOtherKinds ==
    IsRegistration =>
       /\ RegisteredKind # "footnote" => UNCHANGED FootnoteState
       /\ RegisteredKind # "endnote" => UNCHANGED EndnoteState
       /\ RegisteredKind # "comment" => UNCHANGED CommentState

\* The indices of a kind number the definitions of that kind alone: they are
\* 1..n for its n definitions, one per identifier.
OwnSequence(index_by_id, list) ==
    /\ \A id \in DOMAIN index_by_id : index_by_id[id] \in 1..Len(list)
    /\ \A a, b \in DOMAIN index_by_id : index_by_id[a] = index_by_id[b] => a = b
    /\ Cardinality(DOMAIN index_by_id) = Len(list)

IndicesFromOwnSequence ==
    /\ OwnSequence(footnote_index_by_id, footnotes)
    /\ OwnSequence(endnote_index_by_id, endnotes)

\* C33: registering an identifier for one kind changes nothing for the other
\* two kinds; the same identifier may be a footnote and an endnote, and each
\* kind hands out its indices from its own sequence.
C33_KindsAreIndependent ==
    /\ []IndicesFromOwnSequence
    /\ [][RegistrationKeepsOtherKinds]_vars

\* Footnote 2, footnote 1, then endnote 1: identifier 1 is footnote 2 and
\* endnote 1.
C33_Witness ==
    /\ Len(calls) = 3
    /\ calls[3] = <<"endnote", "1", "[^en1]">>
    /\ footnote_index_by_id = (1 :> 2) @@ (2 :> 1)
    /\ endnote_index_by_id = (1 :> 1)
    /\ Len(footnotes) = 2
    /\ Len(endnotes) = 1

(***************************************************************************)
(* Properties of style ids that the style table does not hold              *)
(***************************************************************************)

\* What a resolution without any style id returns: the direct formatting over
\* the document defaults.
ResultWithoutStyles ==
    IF sargs.kind = "run"
    THEN LET base == IF doc_defaults.character # None
                     THEN merge_char_props(DefaultCharProps, Unwrap(doc_defaults.character))
                     ELSE DefaultCharProps
         IN IF sargs.direct # None THEN merge_char_props(base, Unwrap(sargs.direct)) ELSE base
    ELSE LET base == IF doc_defaults.paragraph # None
                     THEN merge_para_props(DefaultParaProps, Unwrap(doc_defaults.paragraph))
                     ELSE DefaultParaProps
         IN IF sargs.direct # None THEN merge_para_props(base, Unwrap(sargs.direct)) ELSE base

\* A finished resolution whose style ids are absent or unknown returns what a
\* resolution without style ids returns.
UnknownIdsResolveAsNone ==
    (sresult # None /\ sargs.run_style_id \notin StyleIds /\ sargs.para_style_id \notin StyleIds)
        => sresult = Some(ResultWithoutStyles)

\* The walk stands on an id the table does not hold.
AtUnknownStyle == Walking /\ current_id # NoneV /\ current_id \notin DOMAIN style_map

\* The walk ends there, and the styles collected before it are applied.
UnknownEndsChain ==
    AtUnknownStyle =>
       /\ spc' \notin {"walk_para_style", "walk_run_style"}
       /\ merged' = IF sargs.kind = "run" THEN Some(ApplyChainChar(Unwrap(merged), chain))
                    ELSE Some(ApplyChainPara(Unwrap(merged), chain))
       /\ chain = <<>> => merged' = merged

\* C34: a style id that is not in the style table contributes nothing and
\* raises no error: an unknown run or paragraph style id resolves as no style
\* id, and a chain whose base pointer names an unknown style ends there with
\* the styles collected before it applied.
C34_UnknownStyleContributesNothing ==
    /\ []UnknownIdsResolveAsNone
    /\ [][UnknownEndsChain]_vars

\* A run resolved through style A, whose base names the unknown style X: the
\* walk ended at X and the bold of A is in the result.
C34_Witness ==
    /\ spc = "idle"
    /\ sargs.kind = "run"
    /\ sargs.run_style_id = "A"
    /\ sargs.para_style_id = UnknownStyleId
    /\ style_map["A"].base = UnknownStyleId
    /\ style_map["A"].character # None
    /\ sresult # None
    /\ Unwrap(sresult).bold = "on"

(***************************************************************************)
(* Properties of the base-level shift                                      *)
(***************************************************************************)

\* The levels of an abstract list whose template matches the article pattern.
ArticleLevels(abs_id) ==
    {abstract_nums[abs_id][k].ilvl : k \in {j \in 1..Len(abstract_nums[abs_id]) :
                                              IsArticleText(abstract_nums[abs_id][j].lvl_text)}}

\* The shift of a list is its shallowest article level; a list without such a
\* level has no shift.
ShiftIsShallowestArticleLevel ==
    \A abs_id \in DOMAIN abstract_nums :
        IF ArticleLevels(abs_id) = {} THEN abs_id \notin DOMAIN level_shifts
        ELSE /\ abs_id \in DOMAIN level_shifts
             /\ level_shifts[abs_id] \in ArticleLevels(abs_id)
             /\ \A l \in ArticleLevels(abs_id) : level_shifts[abs_id] <= l

\* next_marker gives the marker and the counters that the numbering gives
\* from the instances, the definitions and the counters alone, and it leaves
\* the shifts as they were.
MarkerWithoutShift ==
    IsMarkerCall =>
       LET alone == MarkerIn([LocalsNew EXCEPT !.counters = counters],
                             NewCall.num_id, NewCall.ilvl)
       IN /\ NewCall.marker = alone.text
          /\ counters' = alone.locals.counters
          /\ level_shifts' = level_shifts

\* C35: the base-level shift of an abstract list is the shallowest level whose
\* template matches the article pattern, whatever the order in which the
\* levels are declared, and the shift affects only indentation, not the
\* markers and counters of next_marker.
C35_ShiftIsShallowestArticleLevel ==
    /\ []ShiftIsShallowestArticleLevel
    /\ [][MarkerWithoutShift]_vars

(***************************************************************************)
(* Properties of the order of the wrappers of a segment                    *)
(***************************************************************************)

\* The strike-through of text: the tildes go around the text, inside the
\* blanks that surround it.
StruckThrough(t) == apply_format_safely(t, TILDES, TILDES)

\* The wrappers of a segment from the inside out: deletion strike-through,
\* insertion wrapper, underline when `underlined`, strike of text that is not
\* deleted, and the bold/italic combination outermost.
WrappedInOrder(seg, underlined) ==
    LET deleted == IF seg.is_deletion THEN StruckThrough(seg.text) ELSE seg.text
        inserted == IF seg.is_insertion THEN Tag(INS) \o deleted \o EndTag(INS) ELSE deleted
        under == IF underlined THEN Tag(<<"u">>) \o inserted \o EndTag(<<"u">>) ELSE inserted
        struck == IF seg.has_strike /\ ~seg.is_deletion THEN StruckThrough(under) ELSE under
    IN CASE seg.is_bold /\ seg.is_italic ->
               Tag(STRONG) \o Tag(EM) \o struck \o EndTag(EM) \o EndTag(STRONG)
         [] seg.is_bold /\ ~seg.is_italic -> Tag(STRONG) \o struck \o EndTag(STRONG)
         [] ~seg.is_bold /\ seg.is_italic -> Tag(EM) \o struck \o EndTag(EM)
         [] OTHER -> struck

NoFlag(seg) ==
    ~(seg.is_bold \/ seg.is_italic \/ seg.has_underline \/ seg.has_strike
         \/ seg.is_insertion \/ seg.is_deletion)

\* C36 as stated: a segment's text is wrapped from the inside out by deletion
\* strike-through, insertion wrapper, underline, strike of non-deleted text
\* and the bold/italic combination, the underline whenever the segment is
\* underlined; a segment with no flag is its text.
C36_WrappersInOrder_AsStated ==
    \A k \in 1..Len(body) :
        body[k].kind = "segments_to_markdown" =>
           /\ body[k].text = WrappedInOrder(body[k].input, body[k].input.has_underline)
           /\ NoFlag(body[k].input) => body[k].text = body[k].input.text

\* C36, amended: the same order, the underline wrapper being written only for
\* a segment that is not an insertion (an insertion is shown by <ins> alone).
C36_WrappersInOrder ==
    \A k \in 1..Len(body) :
        body[k].kind = "segments_to_markdown" =>
           /\ body[k].text = WrappedInOrder(body[k].input,
                                 body[k].input.has_underline /\ ~body[k].input.is_insertion)
           /\ NoFlag(body[k].input) => body[k].text = body[k].input.text

\* A bold, italic, underlined and struck run was rendered: the underline is
\* inside the strike, the strike inside the emphasis.
C36_Witness ==
    /\ Len(body) = 1
    /\ body[1].kind = "segments_to_markdown"
    /\ body[1].input = FormattedSegment(<<"x">>, TRUE, TRUE, TRUE, TRUE, FALSE, FALSE, None)
    /\ body[1].text = Tag(STRONG) \o Tag(EM) \o TILDES \o Tag(<<"u">>) \o <<"x">>
                         \o EndTag(<<"u">>) \o TILDES \o EndTag(EM) \o EndTag(STRONG)

(***************************************************************************)
(* Properties of list markers that are headings                            *)
(***************************************************************************)

\* str::trim_end_matches('.')
RECURSIVE trim_end_dots(_)
trim_end_dots(s) ==
    IF s # <<>> /\ s[Len(s)] = "." THEN trim_end_dots(SubSeq(s, 1, Len(s) - 1)) ELSE s

\* localization.rs 37-46, KoreanLocalization::handle_numbering: the heading
\* prefix of a marker of the form JE..JO or JE..JO., None for any other marker.
handle_numbering(marker) ==
    IF /\ MatchAt(marker, <<JE>>, 1)
       /\ \/ Len(marker) >= 2 /\ MatchAt(marker, <<JO, ".">>, Len(marker) - 1)
          \/ Len(marker) >= 1 /\ MatchAt(marker, <<JO>>, Len(marker))
    THEN Some(<<"#", "#", "#", " ">> \o trim_end_dots(marker))
    ELSE None

\* The paragraph converted made a next_marker call, and the marker returned
\* has a heading form.
HeadingMarkerReturned ==
    /\ Len(body) = 1
    /\ body[1].kind = "Paragraph"
    /\ Len(ncalls) = 1
    /\ handle_numbering(ncalls[1].marker) # None

\* C37: a paragraph whose list marker resolves to a heading-like regional
\* pattern is converted to a heading whose prefix holds the marker, and the
\* marker is not written as a list marker.
C37_HeadingMarkerPromotesParagraph ==
    HeadingMarkerReturned =>
       Contains(body[1].converted, Unwrap(handle_numbering(ncalls[1].marker)))

(***************************************************************************)
(* Properties of to_roman                                                  *)
(***************************************************************************)

\* The value of a Roman symbol.
SymbolValue(c) ==
    CASE c = "M" -> 1000 [] c = "D" -> 500 [] c = "C" -> 100 [] c = "L" -> 50
      [] c = "X" -> 10 [] c = "V" -> 5 [] c = "I" -> 1 [] OTHER -> 0

\* The value of a numeral read by the subtractive rule: a symbol that stands
\* before a greater one is subtracted.
RECURSIVE RomanValue(_)
RomanValue(s) ==
    IF s = <<>> THEN 0
    ELSE IF Len(s) >= 2 /\ SymbolValue(s[1]) < SymbolValue(s[2])
         THEN RomanValue(Tail(s)) - SymbolValue(s[1])
         ELSE RomanValue(Tail(s)) + SymbolValue(s[1])

\* No symbol stands more than three times in a row.
NoFourInARow(s) ==
    \A i \in 1..(Len(s) - 3) : ~(s[i] = s[i + 1] /\ s[i + 1] = s[i + 2] /\ s[i + 2] = s[i + 3])

\* One decimal digit in Roman symbols: one, five and ten of its place.
RomanDigit(d, one, five, ten) ==
    CASE d = 0 -> <<>>
      [] d = 1 -> <<one>>
      [] d = 2 -> <<one, one>>
      [] d = 3 -> <<one, one, one>>
      [] d = 4 -> <<one, five>>
      [] d = 5 -> <<five>>
      [] d = 6 -> <<five, one>>
      [] d = 7 -> <<five, one, one>>
      [] d = 8 -> <<five, one, one, one>>
      [] d = 9 -> <<one, ten>>

\* The subtractive Roman numeral of n in 1..3999, written digit by digit.
SubtractiveNumeral(n) ==
    RomanDigit(n \div 1000, "M", "M", "M")
        \o RomanDigit((n \div 100) % 10, "C", "D", "M")
        \o RomanDigit((n \div 10) % 10, "X", "L", "C")
        \o RomanDigit(n % 10, "I", "V", "X")

\* The numeral of a marker of the Roman list: the marker without its full stop.
NumeralOf(marker) == SubSeq(marker, 1, Len(marker) - 1)

\* C38: to_roman of n in 1..3999 is the subtractive Roman numeral whose value
\* is n, with no symbol more than three times in a row; for n <= 0 it is the
\* decimal string of n.
C38_ToRomanIsSubtractiveNumeral ==
    \A i \in 1..Len(ncalls) :
        LET n == ncalls[i].counter
            numeral == NumeralOf(ncalls[i].marker)
        IN /\ ncalls[i].marker[Len(ncalls[i].marker)] = "."
           /\ n <= 0 => numeral = DecChars(n)
           /\ (n >= 1 /\ n <= 3999) =>
                 /\ numeral = SubtractiveNumeral(n)
                 /\ RomanValue(numeral) = n
                 /\ NoFourInARow(numeral)

\* The list starts at 1994: the first marker is MCMXCIV, the third MCMXCVI.
C38_Witness ==
    /\ Len(ncalls) = 3
    /\ ncalls[1].counter = 1994
    /\ ncalls[1].marker = <<"M", "C", "M", "X", "C", "I", "V", ".">>
    /\ ncalls[3].marker = <<"M", "C", "M", "X", "C", "V", "I", ".">>

====
